---------------------------- MODULE Spec2Model ----------------------------
(***************************************************************************)
(* A model of the multi-role orchestration engine of cs-agent-service:     *)
(*   - the execution dispatcher  AgentService.handle_task  (src/agent.py)  *)
(*   - the tool cache            MCPToolLoader.load_tools                   *)
(*   - the prompt resolution     AgentService._resolve_prompt and          *)
(*                               prompt_resolver.resolve_prompt            *)
(*   - the credential wrapper    MCPToolLoader._wrap_tool_with_auth        *)
(*                                                                         *)
(* A text is a sequence of atoms.  An atom is a one-character string, or a *)
(* literal chunk of a prompt template of the source; the Python string is  *)
(* the concatenation of the atoms.  Texts that the code parses (the        *)
(* coordinator's and the hub's replies, role names) are made of            *)
(* one-character atoms only.                                               *)
(***************************************************************************)
EXTENDS Integers, Sequences, FiniteSets, TLC

(* Python's None, and the output of an invocation that has not returned yet:
   one-atom sequences that are no text of the model *)
None == <<"<None>">>
Pending == <<"<Pending>">>

----------------------------------------------------------------------------
(* Bounds of the model *)

MaxRoles == 2
NCallers == 3
MaxTTL == 2
MaxTime == 3
MaxInvocations == 2
MaxRotations == 1
MaxLoads == 2

----------------------------------------------------------------------------
(* Text helpers: str.join, str.split, str.strip, str.lower *)

RECURSIVE Join(_, _)
Join(sep, parts) ==
  IF parts = <<>> THEN <<>>
  ELSE IF Len(parts) = 1 THEN parts[1]
  ELSE parts[1] \o sep \o Join(sep, Tail(parts))

RECURSIVE Split(_, _)
Split(s, sep) ==
  IF \A i \in 1..Len(s) : s[i] # sep THEN <<s>>
  ELSE LET k == CHOOSE i \in 1..Len(s) : s[i] = sep /\ \A j \in 1..(i-1) : s[j] # sep
       IN  <<SubSeq(s, 1, k - 1)>> \o Split(SubSeq(s, k + 1, Len(s)), sep)

IsSpace(c) == c \in {" ", "\n", "\t"}

RECURSIVE LStrip(_)
LStrip(s) == IF s # <<>> /\ IsSpace(s[1]) THEN LStrip(Tail(s)) ELSE s

RECURSIVE RStrip(_)
RStrip(s) ==
  IF s # <<>> /\ IsSpace(s[Len(s)]) THEN RStrip(SubSeq(s, 1, Len(s) - 1)) ELSE s

Strip(s) == RStrip(LStrip(s))

LowerAtom(c) ==
  CASE c = "A" -> "a"
    [] c = "B" -> "b"
    [] c = "C" -> "c"
    [] c = "Q" -> "q"
    [] c = "Error: " -> "error: "
    [] OTHER -> c

Lower(s) == [i \in 1..Len(s) |-> LowerAtom(s[i])]

SeqToSet(s) == {s[i] : i \in 1..Len(s)}

RECURSIVE SelectIdx(_, _, _)
SelectIdx(s, keep, i) ==
  IF i > Len(s) THEN <<>>
  ELSE (IF s[i] \in keep THEN <<s[i]>> ELSE <<>>) \o SelectIdx(s, keep, i + 1)

(* [x for x in s if x in keep] *)
Filter(s, keep) == SelectIdx(s, keep, 1)


----------------------------------------------------------------------------
(* The execution dispatcher: AgentService.handle_task and its patterns *)

VARIABLES
  execution_type,  \* AgentService.execution_type
  agents,          \* AgentService.agents: the declared roles, by name, in order
  runtime_config,  \* AgentService.runtime_config, each key with its .get default
  user_message,    \* the argument of handle_task
  pc,              \* where handle_task stands: the await it is suspended at
  calls,           \* every BaseAgent.invoke made: role, input, output (or Pending)
  context,         \* _run_sequential: context
  results,         \* _run_sequential / _run_coordinator: results
  selected,        \* _run_coordinator: selected
  idx,             \* _run_coordinator: position of the for loop in selected
  lead,            \* _run_coordinator: coordinator; _run_hub_spoke: hub
  combined,        \* _run_parallel / _run_coordinator: combined
  completed,       \* the invocations that have returned, in completion order
  result           \* what handle_task returned (None before it returns)

cvars == <<execution_type, agents, runtime_config, user_message>>
dvars == <<execution_type, agents, runtime_config, user_message, pc, calls,
           context, results, selected, idx, lead, combined, completed, result>>

(* Calls of handle_task compared with each other: see the section on calls
   running side by side below *)
VARIABLES
  other,       \* the frame of the handle_task call that is not running
  comparison,  \* "none": calls are not compared; "alone": one call runs,
               \* alone; "overlapping": two calls overlap
  alone        \* what the call that ran alone has invoked and returned

kvars == <<other, comparison, alone>>

NamePool == {<<"a">>, <<"B">>, <<"c">>}

KnownTypes == {"single", "sequential", "parallel", "coordinator", "hub-spoke"}
ExecTypes == KnownTypes \cup {"loop", "hybrid"}

(* What the completion capability may answer: a text, or an exception with a
   message. *)
Replies == {<<"a">>, <<"c", ",", " ", "A">>, <<"x">>, <<" ", "A", "\n">>, <<"B">>}
FailureMsgs == {<<"boom">>}
AnyCompletion == [ok : {TRUE}, text : Replies] \cup [ok : {FALSE}, text : FailureMsgs]

(* The answers given while calls are compared: a list that names two roles,
   and the name of one role.  Two answers are the fewest with which an
   invocation can be answered in one way here and in another way there. *)
ComparedAnswers == {<<"c", ",", " ", "A">>, <<"a">>}

Completions ==
  IF comparison = "none" THEN AnyCompletion
  ELSE {c \in AnyCompletion : c.text \in ComparedAnswers}

Messages == {<<"Q">>}

ErrorPrefix == <<"Error: ">>
NoResults == <<"No results.">>

(* BaseAgent.invoke with its except clause removed: the failure propagates. *)
InvokePropagating(c) == [raised |-> ~c.ok, text |-> c.text]

(* BaseAgent.invoke, were the failure of the completion call answered with an
   empty text *)
InvokeBlankOnFailure(c) == [raised |-> FALSE, text |-> IF c.ok THEN c.text ELSE <<>>]

(* BaseAgent.invoke: the completion's text, or "Error: <message>" when the
   completion call raises. *)
Invoke(c) ==
  IF c.ok THEN [raised |-> FALSE, text |-> c.text]
  ELSE [raised |-> FALSE, text |-> ErrorPrefix \o c.text]

Declared == SeqToSet(agents)

(* roles_by_name.get(role_name), were a name that is no role answered with the
   first role *)
GetRoleOrFirst(role_name) == IF role_name \in Declared THEN role_name ELSE agents[1]

(* roles_by_name.get(role_name) *)
_get_role(role_name) == IF role_name \in Declared THEN role_name ELSE None

(* An invocation in flight.  ok and raw record what the completion call did
   once it has returned: whether it succeeded, and its text or message. *)
Call(role, input) ==
  [role |-> role, input |-> input, out |-> Pending, ok |-> TRUE, raw |-> Pending]

Block(name, text) == <<"=== ">> \o name \o <<" ===\n">> \o text

BlankLine == <<"\n", "\n">>
CommaSpace == <<",", " ">>

(* _run_parallel: parallel_agents, were the aggregator not left out *)
ParallelAgentsWithAggregator ==
  IF runtime_config.parallel_roles # {}
  THEN Filter(agents, runtime_config.parallel_roles)
  ELSE agents

(* _run_parallel: parallel_agents *)
ParallelAgents ==
  IF runtime_config.parallel_roles # {}
  THEN Filter(agents, runtime_config.parallel_roles)
  ELSE Filter(agents, Declared \ {runtime_config.aggregator_role})

(* The aggregator's prompt without the combined text *)
AggregatePromptBare(c) == <<"Aggregate and synthesize these results:\n\n">>

AggregatePrompt(c) == <<"Aggregate and synthesize these results:\n\n">> \o c

DecisionPrompt(worker_names, msg) ==
  <<"You are a coordinator. Available workers: [">>
  \o (IF worker_names # <<>> THEN Join(CommaSpace, worker_names) ELSE <<"none defined">>)
  \o <<"]. For this task, decide which worker(s) to use. Respond with ONLY the worker name(s), comma-separated.\n\nTask: ">>
  \o msg

SynthesisPrompt(c) == <<"Synthesize these worker results into a final response:\n\n">> \o c

RoutingPrompt(spoke_names, msg) ==
  <<"You are a hub router. Available spokes: [">>
  \o (IF spoke_names # <<>> THEN Join(CommaSpace, spoke_names) ELSE <<"none defined">>)
  \o <<"]. Route this request to the best spoke. Respond with ONLY the spoke name.\n\nRequest: ">>
  \o msg

(* _run_coordinator: selected, were the names taken from the end of the reply *)
ParseSelectedReversed(decision) ==
  LET parts == Split(decision, ",")
  IN  [i \in 1..Len(parts) |-> Lower(Strip(parts[Len(parts) + 1 - i]))]

(* _run_coordinator: selected *)
ParseSelected(decision) ==
  LET parts == Split(decision, ",")
  IN  [i \in 1..Len(parts) |-> Lower(Strip(parts[i]))]

(* The next position at or after i of selected whose name is a role, 0 if none:
   the for loop of _run_coordinator skipping the names _get_role does not know *)
RECURSIVE NextWorker(_, _)
NextWorker(sel, i) ==
  IF i > Len(sel) THEN 0
  ELSE IF _get_role(sel[i]) # None THEN i
  ELSE NextWorker(sel, i + 1)


(* The last invocation started: the one a sequential await is suspended at *)
Last == Len(calls)

Done(i, c, text) == [calls EXCEPT ![i] = [@ EXCEPT !.out = text, !.ok = c.ok, !.raw = c.text]]

(* Invocation i returns text, its completion call having ended as c *)
Returned(i, c, text) ==
  /\ calls' = Done(i, c, text)
  /\ completed' = Append(completed, i)

(* Returned(Last, c, text), then the role that has just returned is invoked
   once more *)
ReturnedThenCallAgain(c, text, role, input) ==
  /\ calls' = Append(Done(Last, c, text), Call(calls[Last].role, input))
  /\ completed' = Append(completed, Last)

(* Returned(Last, c, text), then the next invocation starts *)
ReturnedThenCall(c, text, role, input) ==
  /\ calls' = Append(Done(Last, c, text), Call(role, input))
  /\ completed' = Append(completed, Last)

(* handle_task returns text *)
Finish(text) == pc' = "returned" /\ result' = text

(* handle_task, were a call to use up the role list it runs *)
SelfRolesCleared == agents' = <<>> /\ UNCHANGED <<execution_type, runtime_config>>

(* handle_task and the _run_ methods, lines 324-467, assign no attribute of
   self: they read execution_type, agents, roles_by_name and runtime_config
   and keep everything else in local variables *)
SelfUntouched == UNCHANGED <<execution_type, agents, runtime_config>>

(* An exception leaves handle_task *)
Propagate ==
  /\ pc' = "raised"
  /\ SelfUntouched /\ UNCHANGED <<user_message, calls, context, results, selected, idx, lead, combined,
                 completed, result>>

_run_single ==
  /\ calls' = Append(calls, Call(agents[1], user_message))
  /\ pc' = "single"
  /\ SelfUntouched /\ UNCHANGED <<user_message, context, results, selected, idx, lead, combined,
                 completed, result>>

SingleReturn ==
  /\ pc = "single"
  /\ \E c \in Completions :
       LET r == Invoke(c)
       IN  IF r.raised THEN Propagate
           ELSE /\ Returned(Last, c, r.text)
                /\ Finish(r.text)
                /\ SelfUntouched /\ UNCHANGED <<user_message, context, results, selected, idx, lead, combined>>

(* _run_sequential, lines 354-355, with the chaining left out *)
NextContextUnchained(chain_output, text, ctx) == ctx

(* _run_sequential, lines 354-355: context after a role has returned text *)
NextContext(chain_output, text, ctx) == IF chain_output THEN text ELSE ctx

_run_sequential ==
  /\ context' = user_message
  /\ results' = <<>>
  /\ IF agents = <<>>
     THEN calls' = calls /\ Finish(NoResults)
     ELSE /\ calls' = Append(calls, Call(agents[1], user_message))
          /\ pc' = "sequential"
          /\ result' = result
  /\ SelfUntouched /\ UNCHANGED <<user_message, selected, idx, lead, combined, completed>>

(* One turn of the for loop of _run_sequential: the awaited role returns, its
   result is appended, context is replaced when chain_output is set, and the
   next role is invoked on context, or the last result is returned. *)
SequentialReturn ==
  /\ pc = "sequential"
  /\ \E c \in Completions :
       LET r == Invoke(c)
           k == Len(results) + 1
           ctx == NextContext(runtime_config.chain_output, r.text, context)
       IN  IF r.raised THEN Propagate
           ELSE /\ results' = Append(results, [role |-> agents[k], result |-> r.text])
                /\ context' = ctx
                /\ IF k < Len(agents)
                   THEN /\ ReturnedThenCall(c, r.text, agents[k + 1], ctx)
                        /\ UNCHANGED <<pc, result>>
                   ELSE /\ Returned(Last, c, r.text)
                        /\ Finish(results'[Len(results')].result)
                /\ SelfUntouched /\ UNCHANGED <<user_message, selected, idx, lead, combined>>

(* _run_parallel up to its await: one invocation per participant, on the
   original input, handed to asyncio.gather in the order of parallel_agents *)
_run_parallel ==
  /\ calls' = calls \o [i \in 1..Len(ParallelAgents) |-> Call(ParallelAgents[i], user_message)]
  /\ pc' = "parallel"
  /\ SelfUntouched /\ UNCHANGED <<user_message, context, results, selected, idx, lead, combined,
                 completed, result>>

(* One of the gathered invocations returns; the others stay in flight *)
ParallelComplete ==
  /\ pc = "parallel"
  /\ \E i \in 1..Len(calls), c \in Completions :
       /\ calls[i].out = Pending
       /\ LET r == Invoke(c)
          IN  IF r.raised THEN Propagate
              ELSE /\ Returned(i, c, r.text)
                   /\ SelfUntouched /\ UNCHANGED <<user_message, pc, context, results, selected, idx, lead,
                                  combined, result>>

(* The await of line 375, were it over at the first invocation to return *)
FirstGathered == \E i \in 1..Len(calls) : calls[i].out # Pending

(* The await of asyncio.gather, line 375, is over: every invocation handed to
   it has returned *)
AllGathered == \A i \in 1..Len(calls) : calls[i].out # Pending

(* The list asyncio.gather would return had it listed the results as they
   completed *)
GatherByCompletion == [i \in 1..Len(completed) |-> calls[completed[i]].out]

(* The list asyncio.gather returns: the results in the order of its arguments *)
Gather == [i \in 1..Len(calls) |-> calls[i].out]

(* _run_parallel after the gather: the combined text, then the aggregator,
   if one is named and declared *)
ParallelGathered ==
  /\ pc = "parallel"
  /\ AllGathered
  /\ LET res == Gather
         comb == Join(BlankLine,
                      [i \in 1..Len(ParallelAgents) |-> Block(ParallelAgents[i], res[i])])
         aggregator_name == runtime_config.aggregator_role
         aggregator == IF aggregator_name # None THEN _get_role(aggregator_name) ELSE None
     IN  /\ results' = res
         /\ combined' = comb
         /\ IF aggregator # None
            THEN /\ calls' = Append(calls, Call(aggregator, AggregatePrompt(comb)))
                 /\ pc' = "aggregate"
                 /\ result' = result
            ELSE /\ calls' = calls
                 /\ Finish(comb)
  /\ SelfUntouched /\ UNCHANGED <<user_message, context, selected, idx, lead, completed>>

AggregatorReturn ==
  /\ pc = "aggregate"
  /\ \E c \in Completions :
       LET r == Invoke(c)
       IN  IF r.raised THEN Propagate
           ELSE /\ Returned(Last, c, r.text)
                /\ Finish(r.text)
                /\ SelfUntouched /\ UNCHANGED <<user_message, context, results, selected, idx, lead, combined>>

_run_coordinator ==
  LET coordinator_name == runtime_config.coordinator_role
      coordinator == IF coordinator_name # None THEN _get_role(coordinator_name)
                     ELSE agents[1]
  IN  IF coordinator = None THEN _run_single
      ELSE /\ lead' = coordinator
           /\ calls' = Append(calls, Call(coordinator,
                          DecisionPrompt(runtime_config.worker_roles, user_message)))
           /\ pc' = "coord_decide"
           /\ SelfUntouched /\ UNCHANGED <<user_message, context, results, selected, idx, combined,
                          completed, result>>

(* _run_coordinator, lines 426-435, without the fallback branch *)
FinalInputAlwaysSynthesis(res, msg) == SynthesisPrompt(Join(BlankLine, res))

(* _run_coordinator, lines 426-435: what the coordinator is invoked on once the
   workers are done: the original input when no block was collected, the
   synthesis prompt over the joined blocks otherwise *)
FinalInput(res, msg) ==
  IF res = <<>> THEN msg ELSE SynthesisPrompt(Join(BlankLine, res))

(* _run_coordinator from position i of selected, the awaited invocation having
   returned text: the next matching worker is invoked; when none is left the
   coordinator is invoked, on the original input if no block was collected and
   on the synthesis prompt otherwise *)
CoordinatorContinue(c, text, sel, i, res) ==
  LET j == NextWorker(sel, i)
  IN  /\ selected' = sel
      /\ results' = res
      /\ IF j # 0
         THEN /\ idx' = j
              /\ ReturnedThenCall(c, text, _get_role(sel[j]), user_message)
              /\ pc' = "coord_work"
              /\ combined' = combined
         ELSE /\ idx' = Len(sel) + 1
              /\ pc' = "coord_final"
              /\ combined' = (IF res = <<>> THEN combined ELSE Join(BlankLine, res))
              /\ ReturnedThenCall(c, text, lead, FinalInput(res, user_message))
      /\ SelfUntouched /\ UNCHANGED <<user_message, context, lead, result>>

CoordDecisionReturn ==
  /\ pc = "coord_decide"
  /\ \E c \in Completions :
       LET r == Invoke(c)
       IN  IF r.raised THEN Propagate
           ELSE CoordinatorContinue(c, r.text, ParseSelected(r.text), 1, <<>>)

CoordWorkerReturn ==
  /\ pc = "coord_work"
  /\ \E c \in Completions :
       LET r == Invoke(c)
       IN  IF r.raised THEN Propagate
           ELSE CoordinatorContinue(c, r.text, selected, idx + 1,
                                    Append(results, Block(selected[idx], r.text)))

CoordFinalReturn ==
  /\ pc = "coord_final"
  /\ \E c \in Completions :
       LET r == Invoke(c)
       IN  IF r.raised THEN Propagate
           ELSE /\ Returned(Last, c, r.text)
                /\ Finish(r.text)
                /\ SelfUntouched /\ UNCHANGED <<user_message, context, results, selected, idx, lead, combined>>

_run_hub_spoke ==
  LET hub_name == runtime_config.hub_role
      hub == IF hub_name # None THEN _get_role(hub_name) ELSE agents[1]
  IN  IF hub = None THEN _run_single
      ELSE /\ lead' = hub
           /\ calls' = Append(calls, Call(hub,
                          RoutingPrompt(runtime_config.spoke_roles, user_message)))
           /\ pc' = "hub_decide"
           /\ SelfUntouched /\ UNCHANGED <<user_message, context, results, selected, idx, combined,
                          completed, result>>

(* _run_hub_spoke, line 457, with the reply taken as it is written *)
SpokeNameAsWritten(decision) == decision

(* _run_hub_spoke, line 457: spoke_name = decision.strip().lower() *)
SpokeName(decision) == Lower(Strip(decision))

HubDecisionReturn ==
  /\ pc = "hub_decide"
  /\ \E c \in Completions :
       LET r == Invoke(c)
           spoke_name == SpokeName(r.text)
           spoke == _get_role(spoke_name)
       IN  IF r.raised THEN Propagate
           ELSE /\ selected' = <<spoke_name>>
                /\ ReturnedThenCall(c, r.text, IF spoke # None THEN spoke ELSE lead,
                                    user_message)
                /\ pc' = "hub_final"
                /\ SelfUntouched /\ UNCHANGED <<user_message, context, results, idx, lead, combined, result>>

HubFinalReturn ==
  /\ pc = "hub_final"
  /\ \E c \in Completions :
       LET r == Invoke(c)
       IN  IF r.raised THEN Propagate
           ELSE /\ Returned(Last, c, r.text)
                /\ Finish(r.text)
                /\ SelfUntouched /\ UNCHANGED <<user_message, context, results, selected, idx, lead, combined>>

(* handle_task, lines 336-338, were an unknown type run as a pipeline *)
UnknownTypeAsSequential == _run_sequential

(* handle_task, lines 336-338: an unknown execution_type runs _run_single *)
UnknownType == _run_single

(* handle_task up to its first await: the branch on execution_type *)
handle_task ==
  /\ pc = "idle"
  /\ CASE execution_type = "single" -> _run_single
       [] execution_type = "sequential" -> _run_sequential
       [] execution_type = "parallel" -> _run_parallel
       [] execution_type = "coordinator" -> _run_coordinator
       [] execution_type = "hub-spoke" -> _run_hub_spoke
       [] OTHER -> UnknownType


(* The role lists of the model: the lists of at most MaxRoles different names.
   The loader never leaves agents empty. *)
RoleLists ==
  UNION {{r \in [1..n -> NamePool] : \A i, j \in 1..n : i # j => r[i] # r[j]} : n \in 1..MaxRoles}

(* runtime_config with every key at the default its .get gives *)
DefaultConfig ==
  [chain_output |-> TRUE, parallel_roles |-> {}, aggregator_role |-> None,
   coordinator_role |-> None, worker_roles |-> <<>>,
   hub_role |-> None, spoke_roles |-> <<>>]

(* The configurations of pattern t over the roles ag: the keys the pattern
   reads take every value, the keys it never reads stay at their default *)
ConfigsFor(t, ag) ==
  CASE t = "sequential" ->
         {[DefaultConfig EXCEPT !.chain_output = b] : b \in BOOLEAN}
    [] t = "parallel" ->
         {[DefaultConfig EXCEPT !.parallel_roles = p, !.aggregator_role = g] :
            p \in (SUBSET SeqToSet(ag)) \cup {{<<"zz">>}, {ag[1], <<"zz">>}},
            g \in NamePool \cup {None}}
    [] t = "coordinator" ->
         {[DefaultConfig EXCEPT !.coordinator_role = g, !.worker_roles = w] :
            g \in NamePool \cup {None}, w \in {<<>>, Tail(ag), ag, <<<<"zz">>>>}}
    [] t = "hub-spoke" ->
         {[DefaultConfig EXCEPT !.hub_role = g, !.spoke_roles = w] :
            g \in NamePool \cup {None}, w \in {<<>>, Tail(ag), ag, <<<<"zz">>>>}}
    [] OTHER -> {DefaultConfig}

DispatchInit ==
  /\ execution_type \in ExecTypes
  /\ agents \in RoleLists
  /\ runtime_config \in ConfigsFor(execution_type, agents)
  /\ user_message \in Messages
  /\ pc = "idle"
  /\ calls = <<>>
  /\ context = None
  /\ results = <<>>
  /\ selected = <<>>
  /\ idx = 0
  /\ lead = None
  /\ combined = None
  /\ completed = <<>>
  /\ result = None

(* The dispatcher at rest, in the specifications of the other components *)
DispatchIdle ==
  /\ execution_type = "single"
  /\ agents = <<<<"a">>>>
  /\ runtime_config = DefaultConfig
  /\ user_message = <<"Q">>
  /\ pc = "idle"
  /\ calls = <<>>
  /\ context = None
  /\ results = <<>>
  /\ selected = <<>>
  /\ idx = 0
  /\ lead = None
  /\ combined = None
  /\ completed = <<>>
  /\ result = None

----------------------------------------------------------------------------
(* Calls of handle_task running side by side on one AgentService.

   handle_task is a coroutine (lines 324-467): at every await of
   BaseAgent.invoke the event loop may run another call of handle_task on the
   same service.  Each call has its own frame, the locals of the dispatcher
   above, and the calls share self.  The variables of the dispatcher are the
   frame of the call that is running; other keeps the frame of the call that
   is suspended. *)
(* The locals of the running call of handle_task *)
Frame ==
  [user_message |-> user_message, pc |-> pc, calls |-> calls,
   context |-> context, results |-> results, selected |-> selected,
   idx |-> idx, lead |-> lead, combined |-> combined,
   completed |-> completed, result |-> result]

(* The locals of a call of handle_task(msg) that has not started running *)
NewFrame(msg) ==
  [user_message |-> msg, pc |-> "idle", calls |-> <<>>,
   context |-> None, results |-> <<>>, selected |-> <<>>,
   idx |-> 0, lead |-> None, combined |-> None,
   completed |-> <<>>, result |-> None]

(* The event loop resumes the coroutine whose frame is f *)
Resumed(f) ==
  /\ user_message' = f.user_message
  /\ pc' = f.pc
  /\ calls' = f.calls
  /\ context' = f.context
  /\ results' = f.results
  /\ selected' = f.selected
  /\ idx' = f.idx
  /\ lead' = f.lead
  /\ combined' = f.combined
  /\ completed' = f.completed
  /\ result' = f.result

NotYetAlone == [done |-> FALSE, calls |-> <<>>, result |-> None]

(* Every invocation made so far by the call that ran alone and by the two
   overlapping calls *)
AllCalls == alone.calls \o calls \o other.calls

(* The completion capability has answered the same invocation, a role with
   its input, the same way each time it was made.  Nothing in the code makes
   it do so: it is the condition under which the results of two calls can be
   compared, since without it a call run twice alone need not return the
   same result either. *)
SameAnswers ==
  \A i, j \in 1..Len(AllCalls) :
     (/\ AllCalls[i].out # Pending
      /\ AllCalls[j].out # Pending
      /\ AllCalls[i].role = AllCalls[j].role
      /\ AllCalls[i].input = AllCalls[j].input)
     => (AllCalls[i].ok = AllCalls[j].ok /\ AllCalls[i].raw = AllCalls[j].raw)

(* A step of the running call leaves the frame of the suspended call alone *)
RunningStep == UNCHANGED kvars

(* The call that ran alone has returned; handle_task is called twice more with
   the same message, the second call before the first has returned *)
OverlappingCalls ==
  /\ comparison = "alone"
  /\ pc = "returned"
  /\ alone' = [done |-> TRUE, calls |-> calls, result |-> result]
  /\ Resumed(NewFrame(user_message))
  /\ other' = NewFrame(user_message)
  /\ comparison' = "overlapping"
  /\ SelfUntouched

(* The running call is suspended at its await, or has not started or has
   returned, and the event loop runs the other call *)
Resume ==
  /\ comparison = "overlapping"
  /\ other' = Frame
  /\ Resumed(other)
  /\ UNCHANGED <<comparison, alone>>
  /\ SelfUntouched

ConcurrentInit ==
  /\ other = NewFrame(user_message)
  /\ comparison = "alone"
  /\ alone = NotYetAlone

(* No second call of handle_task, in the specifications of the components *)
ConcurrentIdle ==
  /\ other = NewFrame(user_message)
  /\ comparison = "none"
  /\ alone = NotYetAlone



----------------------------------------------------------------------------
(* Properties of the dispatcher, checked under SpecDispatch *)

(* The roles are declared under different names, so a role names its invocation *)
OutOf(role) == calls[CHOOSE i \in 1..Len(calls) : calls[i].role = role].out

(* C1: in the sequential pattern the k-th invocation is of the k-th declared
   role; with chain_output set, role 1 receives the original input and role
   k > 1 receives exactly the output role k-1 returned; with chain_output
   unset every role receives the original input. *)
C1_SequentialInputs ==
  execution_type = "sequential" =>
    /\ Len(calls) <= Len(agents)
    /\ \A k \in 1..Len(calls) :
         /\ calls[k].role = agents[k]
         /\ calls[k].input = (IF runtime_config.chain_output /\ k > 1
                              THEN calls[k - 1].out
                              ELSE user_message)

C1_Witness ==
  /\ execution_type = "sequential"
  /\ runtime_config.chain_output
  /\ pc = "returned"
  /\ Len(calls) = 2
  /\ calls[1].out # user_message
  /\ calls[2].input = calls[1].out

(* C2: in the parallel pattern the combined text is the '=== role ===' blocks
   of the participants in declared role order, each block holding the output
   of that role's own invocation, whatever the order of completion. *)
C2_CombinedInDeclaredOrder ==
  (execution_type = "parallel" /\ combined # None) =>
    LET participants == Filter(agents, {calls[i].role : i \in 1..Len(results)})
    IN  /\ Len(participants) = Len(results)
        /\ combined = Join(BlankLine,
                           [i \in 1..Len(participants) |->
                              Block(participants[i], OutOf(participants[i]))])
        /\ (pc = "returned" /\ Len(calls) = Len(results)) => result = combined

C2_Witness ==
  /\ execution_type = "parallel"
  /\ pc = "returned"
  /\ completed = <<2, 1>>
  /\ calls[1].out # calls[2].out
  /\ result = Block(agents[1], calls[1].out) \o BlankLine \o Block(agents[2], calls[2].out)

(* C5: handle_task never raises for a failed completion call: no exception
   leaves it in any pattern, a role whose completion call failed with message
   m has the output "Error: m", and what handle_task returns is a text. *)
C5_NeverRaises ==
  /\ pc # "raised"
  /\ \A i \in 1..Len(calls) :
       (calls[i].out # Pending /\ ~calls[i].ok) => calls[i].out = ErrorPrefix \o calls[i].raw
  /\ pc = "returned" => (result # None /\ result # Pending)

C5_Witness ==
  /\ pc = "returned"
  /\ execution_type = "coordinator"
  /\ \E i \in 1..Len(calls) : ~calls[i].ok /\ calls[i].out = <<"Error: ", "boom">>
  /\ result # None

(* What the single pattern does: one invocation, of the first declared role,
   on the input, whose output is the result *)
BehavesAsSingle ==
  /\ pc \in {"idle", "single", "returned"}
  /\ Len(calls) = (IF pc = "idle" THEN 0 ELSE 1)
  /\ pc # "idle" => (calls[1].role = agents[1] /\ calls[1].input = user_message)
  /\ pc = "returned" => result = calls[1].out

(* C6: an execution_type outside the five known values performs exactly the
   invocations and returns exactly the result of the single pattern. *)
C6_UnknownTypeIsSingle ==
  /\ execution_type = "single" => BehavesAsSingle
  /\ execution_type \notin KnownTypes => BehavesAsSingle

C6_Witness ==
  /\ execution_type = "loop"
  /\ Len(agents) = 2
  /\ pc = "returned"
  /\ Len(calls) = 1
  /\ result = calls[1].out

(* C10: in the coordinator pattern, once handle_task has returned: the last
   invocation is of the coordinator and its output is the result; when no name
   of the reply is a role, it is the second invocation and its input is the
   original input; otherwise its input is the synthesis prompt over the blocks
   of all the worker invocations, in the order they were made. *)
C10_CoordinatorFinalStep ==
  (execution_type = "coordinator" /\ lead # None /\ pc = "returned") =>
    LET names == ParseSelected(calls[1].out)
        matched == {i \in 1..Len(names) : names[i] \in Declared}
        n == Len(calls)
        blocks == [k \in 1..(n - 2) |-> Block(calls[k + 1].role, calls[k + 1].out)]
    IN  /\ calls[1].role = lead
        /\ calls[n].role = lead
        /\ result = calls[n].out
        /\ n = 2 + Cardinality(matched)
        /\ IF matched = {}
           THEN calls[n].input = user_message
           ELSE calls[n].input =
                  <<"Synthesize these worker results into a final response:\n\n">>
                  \o Join(BlankLine, blocks)

C10_Witness ==
  /\ execution_type = "coordinator"
  /\ pc = "returned"
  /\ Len(calls) = 4
  /\ calls[4].role = lead
  /\ calls[4].input # user_message


(* C11: in the hub-spoke pattern, once handle_task has returned: the hub was
   invoked first; when its reply, trimmed and lowercased, is a declared role,
   that role is the second and last invocation, otherwise the hub is; that
   invocation is on the original input and its output is the result. *)
C11_HubRouting ==
  (execution_type = "hub-spoke" /\ lead # None /\ pc = "returned") =>
    LET name == Lower(Strip(calls[1].out))
    IN  /\ Len(calls) = 2
        /\ calls[1].role = lead
        /\ calls[2].role = (IF name \in Declared THEN name ELSE lead)
        /\ calls[2].input = user_message
        /\ result = calls[2].out

C11_Witness ==
  /\ execution_type = "hub-spoke"
  /\ pc = "returned"
  /\ lead # <<"a">>
  /\ Len(calls) = 2
  /\ calls[1].out = <<" ", "A", "\n">>
  /\ calls[2].role = <<"a">>
  /\ result = calls[2].out

(* The participants of the parallel pattern whose invocation has failed.  An
   invocation of a role is BaseAgent.invoke, lines 68-86, whose one step that
   can fail is the completion call, lines 76-80: the participant has failed when
   that call has raised. *)
FailedParticipants ==
  {i \in 1..Len(ParallelAgents) :
     i <= Len(calls) /\ calls[i].out # Pending /\ ~calls[i].ok}

(* C12: in the parallel pattern, when the invocation of a participant fails,
   its completion call raising, the whole batch fails: handle_task does not
   return, so there is no result holding the outputs of the other
   participants. *)
C12_FailedParticipantFailsBatch ==
  (execution_type = "parallel" /\ FailedParticipants # {}) => pc # "returned"

(* The role names the pattern-specific fields of runtime_config refer to *)
ReferencedRoles ==
  CASE execution_type = "parallel" -> {runtime_config.aggregator_role} \ {None}
    [] execution_type = "coordinator" ->
         ({runtime_config.coordinator_role} \ {None})
           \cup SeqToSet(runtime_config.worker_roles)
    [] execution_type = "hub-spoke" ->
         ({runtime_config.hub_role} \ {None}) \cup SeqToSet(runtime_config.spoke_roles)
    [] OTHER -> {}

(* C13: when a role name a pattern-specific field refers to is not a declared
   role, handle_task does what the single pattern does: it invokes the first
   declared role on the input and returns its output. *)
C13_MissingRoleFallsBackToSingle ==
  (ReferencedRoles \ Declared # {}) => BehavesAsSingle

(* C17: in the sequential pattern with chain_output set, a role whose
   completion call failed does not end the chain: the next declared role is
   invoked, on the text "Error: <message>" of the failed role, and
   handle_task returns only after every declared role has been invoked. *)
C17_FailedStepFeedsNext ==
  (execution_type = "sequential" /\ runtime_config.chain_output) =>
    /\ pc # "raised"
    /\ \A k \in 1..Len(calls) :
         (calls[k].out # Pending /\ ~calls[k].ok /\ k < Len(agents)) =>
           /\ Len(calls) > k
           /\ calls[k + 1].role = agents[k + 1]
           /\ calls[k + 1].input = ErrorPrefix \o calls[k].raw
    /\ pc = "returned" => Len(calls) = Len(agents)

C17_Witness ==
  /\ execution_type = "sequential"
  /\ runtime_config.chain_output
  /\ pc = "returned"
  /\ Len(calls) = 2
  /\ ~calls[1].ok
  /\ calls[2].input = <<"Error: ", "boom">>
  /\ calls[2].ok

(* C18: in the coordinator pattern every name of the coordinator's reply that
   equals a declared role name when letter case is ignored selects that role:
   once handle_task has returned, the role was invoked as a worker. *)
C18_CaseInsensitiveMatch ==
  (execution_type = "coordinator" /\ lead # None /\ pc = "returned") =>
    LET parts == Split(calls[1].out, ",")
    IN  \A i \in 1..Len(parts) : \A d \in Declared :
          Lower(Strip(parts[i])) = Lower(d) =>
            \E k \in 2..(Len(calls) - 1) : calls[k].role = d

----------------------------------------------------------------------------
(* The tool cache: MCPToolLoader.load_tools *)

VARIABLES
  _cache,          \* MCPToolLoader._cache: the shared entry (set = FALSE: None)
  _cache_ts,       \* MCPToolLoader._cache_ts
  _lock,           \* MCPToolLoader._lock: the caller holding it, 0 when free
  waiters,         \* the callers suspended in _lock.acquire(), first come first
  now,             \* time.time()
  _ttl,            \* self._ttl of each loader instance
  lpc,             \* where each caller's load_tools stands
  ret,             \* what each caller's load_tools returned
  discover_count,  \* the executions of _discover_tools started so far
  ran,             \* the executions of _discover_tools each call started
  hist,            \* per caller, what was the case at its steps (see Observe)
  refreshes,       \* the lists of the completed refreshes, in order
  refreshed_at     \* the time the latest refresh completed

lvars == <<_cache, _cache_ts, _lock, waiters, now, _ttl, lpc, ret,
           discover_count, ran, hist, refreshes, refreshed_at>>

Callers == 1..NCallers

(* Two loader instances share the class-wide cache and lock, each with the
   ttl it was constructed with; the callers call them alternately *)
Loaders == {1, 2}
LoaderOf(p) == 1 + (p % 2)

(* What a discovery may find: nothing, or the tools of the servers *)
ToolLists == {<<>>, <<"jira_auth_tool">>}

NoEntry == [set |-> FALSE, id |-> 0, items |-> <<>>]

(* load_tools, line 52, were the cache not looked at again under the lock *)
NoRecheck(p) == FALSE

(* load_tools, line 46, were the age of the entry not looked at *)
CacheValidIgnoringAge(p) == _cache.set

(* load_tools, line 46: the fast path's test *)
CacheValid(p) == _cache.set /\ (now - _cache_ts) < _ttl[LoaderOf(p)]

(* load_tools, line 52: the test repeated once the lock is held *)
CacheValidUnderLock(p) == _cache.set /\ (now - _cache_ts) < _ttl[LoaderOf(p)]

(* asyncio.Lock.acquire, were it to return at once whoever holds the lock *)
LockNeverHeld == TRUE

(* asyncio.Lock.acquire returns at once when the lock is free and nobody waits *)
LockFree == _lock = 0 /\ waiters = <<>>

(* The entry is there and p's loader would take it as fresh: the TTL window *)
WithinTTL(p) == _cache.set /\ now - _cache_ts < _ttl[LoaderOf(p)]

(* What is noted of p when it tests the entry, on the fast path or under the
   lock: whether the entry was absent, and whether it was within the TTL window *)
Tested(p) ==
  [hist[p] EXCEPT !.checked = TRUE,
                  !.fresh_at_check = WithinTTL(p),
                  !.absent_at_check = ~_cache.set,
                  !.empty_at_call = IF lpc[p] = "idle" THEN ~_cache.set ELSE @,
                  !.fresh_at_call = IF lpc[p] = "idle" THEN WithinTTL(p) ELSE @,
                  !.id_at_call = IF lpc[p] = "idle" THEN _cache.id ELSE @]

(* load_tools with the lock held: return the entry if it is valid, and
   otherwise start _discover_tools, keeping the lock *)
UnderLock(p) ==
  IF CacheValidUnderLock(p)
  THEN /\ lpc' = [lpc EXCEPT ![p] = "done"]
       /\ ret' = [ret EXCEPT ![p] = _cache]
       /\ _lock' = 0
       /\ UNCHANGED <<discover_count, ran>>
       /\ hist' = [hist EXCEPT ![p] = Tested(p)]
  ELSE /\ lpc' = [lpc EXCEPT ![p] = "discovering"]
       /\ _lock' = p
       /\ discover_count' = discover_count + 1
       /\ ran' = [ran EXCEPT ![p] = @ + 1]
       /\ ret' = ret
       /\ hist' = [hist EXCEPT ![p] = [Tested(p) EXCEPT
                                         !.fresh_at_discovery = WithinTTL(p),
                                         !.overlap = \E q \in Callers : lpc[q] = "discovering"]]

(* A caller enters load_tools: the fast path, and past it the lock, which it
   takes at once when free and waits for otherwise *)
LoadTools(p) ==
  /\ lpc[p] = "idle"
  /\ IF CacheValid(p)
     THEN /\ lpc' = [lpc EXCEPT ![p] = "done"]
          /\ ret' = [ret EXCEPT ![p] = _cache]
          /\ hist' = [hist EXCEPT ![p] = Tested(p)]
          /\ UNCHANGED <<_lock, waiters, discover_count, ran>>
     ELSE IF LockFree
          THEN UnderLock(p) /\ UNCHANGED waiters
          ELSE /\ waiters' = Append(waiters, p)
               /\ lpc' = [lpc EXCEPT ![p] = "waiting"]
               /\ hist' = [hist EXCEPT ![p].empty_at_call = ~_cache.set,
                                       ![p].fresh_at_call = WithinTTL(p),
                                       ![p].id_at_call = _cache.id,
                                       ![p].waited = TRUE]
               /\ UNCHANGED <<_lock, ret, discover_count, ran>>
  /\ UNCHANGED <<_cache, _cache_ts, now, _ttl, refreshes, refreshed_at>>

(* The lock was released and the first waiter resumes holding it *)
LockAcquired(p) ==
  /\ lpc[p] = "waiting"
  /\ _lock = 0
  /\ waiters # <<>> /\ Head(waiters) = p
  /\ waiters' = Tail(waiters)
  /\ UnderLock(p)
  /\ UNCHANGED <<_cache, _cache_ts, now, _ttl, refreshes, refreshed_at>>

(* load_tools, line 57, were the stamp of the entry left as it was *)
StampKept == _cache_ts

(* load_tools, line 57: the stamp of the entry just stored, time.time() *)
Stamp == now

(* _discover_tools returns: the entry is replaced by the new list, stamped
   with the time, the list is returned and the lock released (lines 55-58) *)
DiscoverReturn(p) ==
  /\ lpc[p] = "discovering"
  /\ \E items \in ToolLists :
       LET tools == [set |-> TRUE, id |-> discover_count, items |-> items]
       IN  /\ _cache' = tools
           /\ ret' = [ret EXCEPT ![p] = tools]
           /\ refreshes' = Append(refreshes, items)
  /\ refreshed_at' = now
  /\ _cache_ts' = Stamp
  /\ _lock' = 0
  /\ lpc' = [lpc EXCEPT ![p] = "done"]
  /\ UNCHANGED <<waiters, now, _ttl, discover_count, ran, hist>>

(* Time passes *)
Tick ==
  /\ now < MaxTime
  /\ now' = now + 1
  /\ UNCHANGED <<_cache, _cache_ts, _lock, waiters, _ttl, lpc, ret,
                 discover_count, ran, hist, refreshes, refreshed_at>>

(* What is noted of a call: whether the cache was empty, whether the entry was
   within the TTL window and which entry it was when the call was made,
   whether it waited for the lock, whether it has tested the entry, whether the
   entry was absent and whether it was within the TTL window at its last test,
   whether it was within the window when the call started a discovery, and
   whether another discovery was running then *)
Observe ==
  [empty_at_call |-> FALSE, fresh_at_call |-> FALSE, id_at_call |-> 0,
   waited |-> FALSE, checked |-> FALSE,
   absent_at_check |-> FALSE, fresh_at_check |-> FALSE,
   fresh_at_discovery |-> FALSE, overlap |-> FALSE]

CacheInit ==
  /\ _cache = NoEntry
  /\ _cache_ts = 0
  /\ _lock = 0
  /\ waiters = <<>>
  /\ now = 0
  /\ _ttl \in [Loaders -> 0..MaxTTL]
  /\ lpc = [p \in Callers |-> "idle"]
  /\ ret = [p \in Callers |-> NoEntry]
  /\ discover_count = 0
  /\ ran = [p \in Callers |-> 0]
  /\ hist = [p \in Callers |-> Observe]
  /\ refreshes = <<>>
  /\ refreshed_at = 0

(* The loader with no call in progress and the entry never stamped, at time t *)
LoaderAtRest(t) ==
  /\ _cache_ts = 0
  /\ _lock = 0
  /\ waiters = <<>>
  /\ now = t
  /\ _ttl = [l \in Loaders |-> MaxTTL]
  /\ lpc = [p \in Callers |-> "idle"]
  /\ ret = [p \in Callers |-> NoEntry]
  /\ discover_count = 0
  /\ ran = [p \in Callers |-> 0]
  /\ hist = [p \in Callers |-> Observe]
  /\ refreshes = <<>>
  /\ refreshed_at = 0

(* The cache untouched, in the specifications of the other components *)
CacheIdle ==
  /\ _cache = NoEntry
  /\ _cache_ts = 0
  /\ _lock = 0
  /\ waiters = <<>>
  /\ now = 0
  /\ _ttl = [l \in Loaders |-> MaxTTL]
  /\ lpc = [p \in Callers |-> "idle"]
  /\ ret = [p \in Callers |-> NoEntry]
  /\ discover_count = 0
  /\ ran = [p \in Callers |-> 0]
  /\ hist = [p \in Callers |-> Observe]
  /\ refreshes = <<>>
  /\ refreshed_at = 0



----------------------------------------------------------------------------
(* Prompt resolution: AgentService._resolve_prompt (the legacy service) and
   prompt_resolver.resolve_prompt (the agent factory, _build_llm_agent).
   Each is a function of the role config and of what every source would
   answer if it were asked. *)

VARIABLES
  role_config,     \* the role's config; an absent key is None
  prompts,         \* resolve_prompt's prompts mapping, role name -> text
  sources,         \* what each source would answer
  resolver,        \* which resolution ran: "none", "service" or "factory"
  resolution       \* its outcome: raised, the text returned, the sources asked

pvars == <<role_config, prompts, sources, resolver, resolution>>

(* bool(x) of an optional text *)
Truthy(x) == x # None /\ x # <<>>

(* Atoms of a template that str.format interprets: a replacement field, or a
   single opening brace, which is a malformed format string *)
Placeholders == {"{name}", "{team}"}
LoneBrace == "{"
KeyOf(ph) == IF ph = "{name}" THEN "name" ELSE "team"

HasBrace(template) ==
  \E i \in 1..Len(template) : template[i] \in Placeholders \cup {LoneBrace}

RECURSIVE Substitute(_, _)
Substitute(template, variables) ==
  IF template = <<>> THEN <<>>
  ELSE (IF template[1] \in Placeholders
        THEN variables[KeyOf(template[1])]
        ELSE <<template[1]>>) \o Substitute(Tail(template), variables)

(* The first atom, from the left, at which str.format fails: a field whose
   key is not among the variables (KeyError) or a single brace (ValueError);
   0 when it succeeds *)
FirstFailure(template, variables) ==
  LET bad == {i \in 1..Len(template) :
                \/ template[i] = LoneBrace
                \/ template[i] \in Placeholders
                   /\ KeyOf(template[i]) \notin DOMAIN variables}
  IN  IF bad = {} THEN 0 ELSE CHOOSE i \in bad : \A j \in bad : i <= j

(* The rendering of _fetch_litellm_prompt (lines 260-267) and of
   _fetch_registry_prompt (lines 289-294): the template formatted with the
   variables when there are variables and a brace in the template; the
   template itself on KeyError; None on any other error, which the enclosing
   handler (lines 269-271, 296-298) turns into a declined source *)
Render(template, variables) ==
  IF DOMAIN variables # {} /\ HasBrace(template)
  THEN LET k == FirstFailure(template, variables)
       IN  IF k = 0 THEN Substitute(template, variables)
           ELSE IF template[k] = LoneBrace THEN None
           ELSE template
  ELSE template

(* _parse_dotprompt_body, were the frontmatter left in place *)
ParseKeepingHeader(content) == Strip(content)

(* dotprompt_content.startswith("---"): the first atom is the delimiter, or a
   word that begins with it *)
StartsWithDashes(content) == content # <<>> /\ content[1] \in {"---", "---t"}

(* AgentService._parse_dotprompt_body: the text after the closing --- line of
   the frontmatter, stripped; the whole content, stripped, when it does not
   start with --- or has no closing --- line *)
_parse_dotprompt_body(content) ==
  IF ~StartsWithDashes(content) THEN Strip(content)
  ELSE LET lines == Split(content, "\n")
           closing == {i \in 2..Len(lines) : Strip(lines[i]) = <<"---">>}
       IN  IF closing # {}
           THEN LET end_idx == CHOOSE i \in closing : \A j \in closing : i <= j
                IN  Strip(Join(<<"\n">>, SubSeq(lines, end_idx + 1, Len(lines))))
           ELSE Strip(content)

(* AgentService._fetch_litellm_prompt: None unless the key is set, the request
   succeeds with status 200 and dotprompt_content is not empty *)
_fetch_litellm_prompt(answer, variables) ==
  IF answer.kind = "content" /\ answer.text # <<>>
  THEN Render(_parse_dotprompt_body(answer.text), variables)
  ELSE None

(* AgentService._fetch_registry_prompt *)
_fetch_registry_prompt(answer, variables) ==
  IF answer.kind = "content" /\ answer.text # <<>>
  THEN Render(answer.text, variables)
  ELSE None

Resolved(text, asked) == [raised |-> FALSE, text |-> text, asked |-> asked]
Raised(asked) == [raised |-> TRUE, text |-> None, asked |-> asked]

(* AgentService._resolve_prompt: inline, then for a prompt_ref LiteLLM and the
   registry, then /app/prompts/{name}.txt, read without a guard, then the
   default *)
_resolve_prompt(rc, src) ==
  IF Truthy(rc.prompt_inline) THEN Resolved(rc.prompt_inline, {})
  ELSE
    LET variables == rc.metadata
        byRef == Truthy(rc.prompt_ref)
        litellm == IF byRef THEN _fetch_litellm_prompt(src.litellm, variables) ELSE None
        registry == IF byRef /\ ~Truthy(litellm)
                    THEN _fetch_registry_prompt(src.registry, variables) ELSE None
        asked1 == IF byRef /\ src.litellm.kind # "no_key" THEN {"litellm"} ELSE {}
        asked2 == IF byRef /\ ~Truthy(litellm) THEN asked1 \cup {"registry"} ELSE asked1
        role_name == IF rc.name # None THEN rc.name ELSE <<"general">>
    IN  IF Truthy(litellm) THEN Resolved(litellm, asked1)
        ELSE IF Truthy(registry) THEN Resolved(registry, asked2)
        ELSE IF src.file.kind = "missing"
             THEN Resolved(<<"You are a ">> \o role_name \o <<" agent.">>,
                           asked2 \cup {"file"})
        ELSE IF src.file.kind = "unreadable" THEN Raised(asked2 \cup {"file"})
        ELSE Resolved(src.file.text, asked2 \cup {"file"})

(* prompt_resolver._try_phoenix_prompt *)
_try_phoenix_prompt(rc, answer) ==
  IF answer.kind = "unconfigured" THEN None
  ELSE IF ~Truthy(rc.phoenix_prompt_id) /\ ~Truthy(rc.name) THEN None
  ELSE IF answer.kind = "content" THEN answer.text
  ELSE None

(* prompt_resolver._read_from_registry *)
_read_from_registry(answer) ==
  IF answer.kind = "content" /\ answer.text # <<>> THEN answer.text ELSE None

(* One file of prompt_resolver._read_from_file: its stripped content, if the
   file exists, can be read and is not blank *)
FileContent(f) ==
  IF f.kind = "content" /\ Strip(f.text) # <<>> THEN Strip(f.text) ELSE None

(* prompt_resolver._read_from_file: {role}.txt, {role}.md, then default.txt *)
_read_from_file(files) ==
  IF FileContent(files.txt) # None THEN FileContent(files.txt)
  ELSE IF FileContent(files.md) # None THEN FileContent(files.md)
  ELSE FileContent(files.default)

_default_prompt == <<"You are an AI assistant.">>

(* prompt_resolver.resolve_prompt: Phoenix, the prompts mapping, the
   instruction field, the registry, the local files, the default *)
resolve_prompt(rc, pr, src) ==
  LET role_name == rc.name
      phoenix == _try_phoenix_prompt(rc, src.phoenix)
      a1 == IF src.phoenix.kind # "unconfigured"
               /\ (Truthy(rc.phoenix_prompt_id) \/ Truthy(rc.name))
            THEN {"phoenix"} ELSE {}
      reg == IF Truthy(role_name) THEN _read_from_registry(src.registry2) ELSE None
      a2 == IF Truthy(role_name) /\ src.registry2.kind # "no_url"
            THEN a1 \cup {"registry"} ELSE a1
      file == IF Truthy(role_name) THEN _read_from_file(src.files) ELSE None
      a3 == IF Truthy(role_name) THEN a2 \cup {"file"} ELSE a2
  IN  IF Truthy(phoenix) THEN Resolved(phoenix, a1)
      ELSE IF role_name \in DOMAIN pr THEN Resolved(pr[role_name], a1 \cup {"mapping"})
      ELSE IF Truthy(rc.instruction) THEN Resolved(rc.instruction, a1 \cup {"instruction"})
      ELSE IF Truthy(reg) THEN Resolved(reg, a2)
      ELSE IF Truthy(file) THEN Resolved(file, a3)
      ELSE Resolved(_default_prompt, a3)


NoVariables == [k \in {} |-> <<>>]

RoleNames == {None, <<"r">>}
InlineTexts == {None, <<>>, <<"B", "e">>}
PromptRefs == {None, <<"p">>}
Metadatas == {NoVariables, [name |-> <<"x">>]}
Instructions == {None, <<"I">>}
PhoenixIds == {None, <<"p">>}

RoleConfigs ==
  [name : RoleNames, prompt_inline : InlineTexts, prompt_ref : PromptRefs,
   metadata : Metadatas, instruction : Instructions,
   phoenix_prompt_id : PhoenixIds]

PromptMappings == {NoVariables, [k \in {<<"r">>} |-> <<>>], [k \in {<<"r">>} |-> <<"M">>]}

Content(text) == [kind |-> "content", text |-> text]
Outcome(kind) == [kind |-> kind, text |-> <<>>]

DotPrompts ==
  { <<>>,
    <<"H", "i", " ", "{name}", "\n">>,
    <<"---", "\n", "m", "\n", "---", "\n", "{team}", " ">>,
    <<"---", "\n", "{">>,
    <<"---t", "\n", "m", "\n", "---", "\n", "B">>,
    <<"---", "\n", "m", "\n", " ", "---", " ", "\n", "B", "\n", "---", "\n", "C", "\n">>,
    <<"\n", "---", "\n", "m", "\n", "---", "\n", "B">>,
    <<"{name}", " ", "{team}">> }

LiteLLMAnswers ==
  {Outcome("no_key"), Outcome("timeout"), Outcome("status")}
    \cup {Content(t) : t \in DotPrompts}

RegistryTemplates == { <<>>, <<"T", "{name}">>, <<"{">> }

RegistryAnswers ==
  {Outcome("timeout"), Outcome("status")} \cup {Content(t) : t \in RegistryTemplates}

ServiceFiles ==
  {Outcome("missing"), Outcome("unreadable"), Content(<<>>), Content(<<"F", "\n">>)}

PhoenixAnswers ==
  {Outcome("unconfigured"), Outcome("error"), Content(<<>>), Content(<<"P">>)}

Registry2Answers ==
  {Outcome("no_url"), Outcome("timeout"), Content(<<>>), Content(<<"R">>)}

FactoryFiles ==
  [txt : {Outcome("missing"), Outcome("unreadable"), Content(<<" ">>),
          Content(<<"F", "\n">>)},
   md : {Outcome("missing"), Content(<<"D">>)},
   default : {Outcome("missing"), Content(<<"d">>)}]

NoSources == [kind |-> "none"]
NoResolution == [raised |-> FALSE, text |-> Pending, asked |-> {}]

(* agent_factory._build_llm_agent: the instruction of the LlmAgent is what
   resolve_prompt returns *)
_build_llm_agent ==
  /\ resolver = "none"
  /\ \E ph \in PhoenixAnswers, r \in Registry2Answers, f \in FactoryFiles :
       LET src == [kind |-> "factory", phoenix |-> ph, registry2 |-> r, files |-> f]
       IN  /\ sources' = src
           /\ resolution' = resolve_prompt(role_config, prompts, src)
  /\ resolver' = "factory"
  /\ UNCHANGED <<role_config, prompts>>

PromptInit ==
  /\ role_config \in RoleConfigs
  /\ prompts \in PromptMappings
  /\ sources = NoSources
  /\ resolver = "none"
  /\ resolution = NoResolution

PromptIdle ==
  /\ role_config = [name |-> None, prompt_inline |-> None, prompt_ref |-> None,
                    metadata |-> NoVariables, instruction |-> None,
                    phoenix_prompt_id |-> None]
  /\ prompts = NoVariables
  /\ sources = NoSources
  /\ resolver = "none"
  /\ resolution = NoResolution

----------------------------------------------------------------------------
(* Credential injection: MCPToolLoader._wrap_tool_with_auth wraps the tools of
   the servers that require user authentication; the wrapper resolves the
   caller's credential with get_user_credential at call time. *)

VARIABLES
  servers,       \* list_servers(): the MCP servers, [server_name, requires_user_auth]
  project_id,    \* GOOGLE_CLOUD_PROJECT / PROJECT_ID, None when unset
  secrets,       \* Secret Manager: (user, service) -> version, 0 when absent
  rotations,     \* how many times a secret has been rotated or deleted
  tools,         \* the discovered tools, as MCPToolLoader._cache holds them
  lookups,       \* every call of get_user_credential, in order
  invocations,   \* every tool invocation, with what the original fn received
  HAVE_ADK       \* agent_factory.HAVE_ADK: the classes of google.adk were imported

avars == <<servers, project_id, secrets, rotations, tools, lookups, invocations,
           HAVE_ADK>>

Users == {<<"u1">>, <<"u2">>}
UserIds == {None, <<>>} \cup Users
ServerNames == {<<"jira">>, <<"git">>}
VersionAtom(v) == IF v = 1 THEN "#1" ELSE IF v = 2 THEN "#2" ELSE "#n"

(* The payload of the secret user-credentials--{user_id}--{service_name} *)
SecretPayload(user_id, service_name, v) ==
  user_id \o <<"@">> \o service_name \o <<VersionAtom(v)>>

(* utils.secrets.get_user_credential, were a lookup that finds nothing
   answered with a placeholder token *)
CredentialOrPlaceholder(user_id, service_name) ==
  IF project_id # None /\ <<user_id, service_name>> \in DOMAIN secrets
       /\ secrets[<<user_id, service_name>>] # 0
  THEN SecretPayload(user_id, service_name, secrets[<<user_id, service_name>>])
  ELSE <<"anonymous">>

(* utils.secrets.get_user_credential: None without a project, and None when
   the secret cannot be read *)
get_user_credential(user_id, service_name) ==
  IF project_id = None THEN None
  ELSE IF <<user_id, service_name>> \notin DOMAIN secrets THEN None
  ELSE IF secrets[<<user_id, service_name>>] = 0 THEN None
  ELSE SecretPayload(user_id, service_name, secrets[<<user_id, service_name>>])

(* The lookups one wrapper makes for a call, mutated to look up for every
   call *)
CredentialLookupsAlways(user_id, server_name) ==
  <<[user_id |-> user_id, service_name |-> server_name]>>

(* wrapped_fn, lines 142-145: one lookup for (user_id, server_name) when the
   call carries a user_id, none otherwise *)
CredentialLookups(user_id, server_name) ==
  IF Truthy(user_id)
  THEN <<[user_id |-> user_id, service_name |-> server_name]>>
  ELSE <<>>

(* wrapped_fn: the call passes through the wrappers around the original fn,
   outermost first; each injects the credential it resolved as auth_token *)
RECURSIVE wrapped_fn(_, _)
wrapped_fn(wrappers, kwargs) ==
  IF wrappers = <<>> THEN [lookups |-> <<>>, kwargs |-> kwargs]
  ELSE LET server_name == Head(wrappers)
           made == CredentialLookups(kwargs.user_id, server_name)
           credential == IF Truthy(kwargs.user_id)
                         THEN get_user_credential(kwargs.user_id, server_name)
                         ELSE None
           injected == IF Truthy(credential)
                       THEN [kwargs EXCEPT !.auth_token = credential]
                       ELSE kwargs
           inner == wrapped_fn(Tail(wrappers), injected)
       IN  [lookups |-> made \o inner.lookups, kwargs |-> inner.kwargs]

(* _wrap_tool_with_auth: the tool's fn is replaced by a wrapper bound to
   server_name; a tool without a fn is returned as it is *)
_wrap_tool_with_auth(tool, server_name) ==
  IF ~tool.has_fn THEN tool
  ELSE [tool EXCEPT !.wrappers = <<server_name>> \o @]

(* _get_mock_tools: one tool per server, wrapped when the server requires
   user authentication.  The stand-in FunctionTool is given the name
   {server_name}_auth_tool; the FunctionTool of google.adk is given the
   function alone (line 168), which is jira_auth_tool for every server *)
_get_mock_tools(srv) ==
  [i \in 1..Len(srv) |->
     LET t == [name |-> (IF HAVE_ADK THEN <<"jira">> ELSE srv[i].server_name)
                          \o <<"_auth_tool">>,
               server |-> srv[i].server_name, has_fn |-> TRUE, wrappers |-> <<>>]
     IN  IF srv[i].requires_user_auth
         THEN _wrap_tool_with_auth(t, srv[i].server_name)
         ELSE t]

(* _discover_tools with DEBUG_MCP_TOOLS: a fresh list of tools replaces the
   cached one *)
_discover_tools ==
  /\ tools' = [set |-> TRUE, items |-> _get_mock_tools(servers)]
  /\ tools' # tools
  /\ UNCHANGED <<servers, project_id, secrets, rotations, lookups, invocations,
                 HAVE_ADK>>

(* A caller invokes the fn of a cached tool *)
InvokeTool(i, user_id) ==
  /\ tools.set
  /\ i \in 1..Len(tools.items)
  /\ Len(invocations) < MaxInvocations
  /\ LET kwargs == [user_id |-> user_id, auth_token |-> None]
         r == wrapped_fn(tools.items[i].wrappers, kwargs)
     IN  /\ lookups' = lookups \o r.lookups
         /\ invocations' = Append(invocations,
              [tool |-> tools.items[i], user_id |-> user_id, received |-> r.kwargs,
               before |-> Len(lookups), made |-> Len(r.lookups),
               current |-> IF Truthy(user_id)
                           THEN get_user_credential(user_id, tools.items[i].server)
                           ELSE None])
  /\ UNCHANGED <<servers, project_id, secrets, rotations, tools, HAVE_ADK>>

(* The user's secret is rotated to a new version in Secret Manager *)
RotateSecret(k) ==
  /\ rotations < MaxRotations
  /\ k \in DOMAIN secrets
  /\ secrets' = [secrets EXCEPT ![k] = @ + 1]
  /\ rotations' = rotations + 1
  /\ UNCHANGED <<servers, project_id, tools, lookups, invocations, HAVE_ADK>>

NoTools == [set |-> FALSE, items |-> <<>>]

ServerLists ==
  { <<[server_name |-> <<"jira">>, requires_user_auth |-> TRUE]>>,
    <<[server_name |-> <<"jira">>, requires_user_auth |-> TRUE],
      [server_name |-> <<"git">>, requires_user_auth |-> FALSE]>>,
    <<[server_name |-> <<"git">>, requires_user_auth |-> TRUE],
      [server_name |-> <<"jira">>, requires_user_auth |-> TRUE]>> }

AuthInit ==
  /\ servers \in ServerLists
  /\ project_id \in {None, <<"proj">>}
  /\ secrets \in {[k \in Users \X ServerNames |-> v] : v \in {0, 1}}
  /\ rotations = 0
  /\ tools = NoTools
  /\ lookups = <<>>
  /\ invocations = <<>>
  /\ HAVE_ADK \in BOOLEAN

(* No server, no secret and no call made *)
AuthRest ==
  /\ servers = <<>>
  /\ project_id = None
  /\ secrets = [k \in Users \X ServerNames |-> 0]
  /\ rotations = 0
  /\ tools = NoTools
  /\ lookups = <<>>
  /\ invocations = <<>>

(* The same in the specifications of the other components, which run with the
   stand-in classes of agent_factory *)
AuthIdle == AuthRest /\ HAVE_ADK = FALSE

----------------------------------------------------------------------------
(* Tool discovery: list_servers, MCPToolLoader._discover_tools, and the two
   entry points load_tools and load_tools_sync seen from one caller at a
   time.  The entry is MCPToolLoader._cache of the tool cache above. *)

VARIABLES
  registry,      \* REGISTRY_API_URL and the registry: "unset", "fails", "servers"
  environ,       \* MCP_SERVERS in the environment: "fails" or "servers"
  mcp_servers,   \* the servers the answering source lists, and how each behaves
  has_toolset,   \* _HAS_GOOGLE_ADK and hasattr(adk, "MCPToolset")
  debug,         \* DEBUG_MCP_TOOLS == "true"
  loads          \* the calls made so far and how each ended

svars == <<registry, environ, mcp_servers, has_toolset, debug, loads>>

(* mcp_config.list_servers: the registry's servers when it is configured and
   answers with some, else those of the environment, else none *)
list_servers ==
  LET fromRegistry == IF registry = "servers" THEN mcp_servers ELSE <<>>
  IN  IF fromRegistry # <<>> THEN fromRegistry
      ELSE IF environ = "servers" THEN mcp_servers
      ELSE <<>>

(* The tool a server advertises to adk.MCPToolset *)
ToolOf(s) ==
  [name |-> s.server_name \o <<"_tool">>, server |-> s.server_name,
   has_fn |-> TRUE, wrappers |-> <<>>]

Attempt(raised, all_tools) == [raised |-> raised, all_tools |-> all_tools]

(* _discover_tools, lines 101-105: one toolset over all the servers that need
   no user authentication; group_raises says whether that toolset raises when
   one of its servers fails *)
RegularTools(no_auth_servers, group_raises) ==
  IF no_auth_servers = <<>> THEN Attempt(FALSE, <<>>)
  ELSE IF group_raises /\ \E i \in 1..Len(no_auth_servers) :
                            no_auth_servers[i].behaviour = "raises"
       THEN Attempt(TRUE, <<>>)
  ELSE LET answering == SelectSeq(no_auth_servers,
                          LAMBDA srv : srv.behaviour = "tools")
       IN  Attempt(FALSE, [i \in 1..Len(answering) |-> ToolOf(answering[i])])

(* _discover_tools, lines 108-114: one toolset per server that requires user
   authentication, in turn, its tools wrapped; the loop ends at the first
   toolset that raises *)
RECURSIVE AuthTools(_, _)
AuthTools(auth_servers, all_tools) ==
  IF auth_servers = <<>> THEN Attempt(FALSE, all_tools)
  ELSE LET srv == Head(auth_servers)
       IN  IF srv.behaviour = "raises" THEN Attempt(TRUE, all_tools)
           ELSE AuthTools(Tail(auth_servers),
                  IF srv.behaviour = "tools"
                  THEN Append(all_tools,
                              _wrap_tool_with_auth(ToolOf(srv), srv.server_name))
                  ELSE all_tools)

(* _discover_tools, lines 95-118: the body of the try statement *)
DiscoveryBody(srv, group_raises) ==
  LET auth_servers == SelectSeq(srv, LAMBDA x : x.requires_user_auth)
      no_auth_servers == SelectSeq(srv, LAMBDA x : ~x.requires_user_auth)
      regular == IF has_toolset THEN RegularTools(no_auth_servers, group_raises)
                 ELSE Attempt(FALSE, <<>>)
      adk == IF ~has_toolset \/ regular.raised THEN regular
             ELSE AuthTools(auth_servers, regular.all_tools)
  IN  IF adk.raised THEN adk
      ELSE IF debug THEN Attempt(FALSE, adk.all_tools \o _get_mock_tools(srv))
      ELSE adk

(* _discover_tools without its except clause *)
NoDiscoveryHandler(body, srv) == [raised |-> body.raised, tools |-> body.all_tools]

(* _discover_tools, lines 120-127: the except clause and the return *)
DiscoveryHandler(body, srv) ==
  IF body.raised
  THEN [raised |-> FALSE,
        tools |-> IF debug /\ body.all_tools = <<>> THEN _get_mock_tools(srv)
                  ELSE body.all_tools]
  ELSE [raised |-> FALSE, tools |-> body.all_tools]

(* MCPToolLoader._discover_tools *)
Discover(group_raises) ==
  LET srv == list_servers
  IN  DiscoveryHandler(DiscoveryBody(srv, group_raises), srv)

(* load_tools, lines 43-58, for a caller that finds the lock free: the entry
   when it is fresh, else what discovery returns, which becomes the entry *)
LoadToolsOutcome(group_raises) ==
  IF CacheValid(1)
  THEN [raised |-> FALSE, tools |-> _cache.items, discovered |-> FALSE]
  ELSE LET d == Discover(group_raises)
       IN  [raised |-> d.raised, tools |-> d.tools, discovered |-> TRUE]

(* MCPToolLoader._cache or [] *)
CacheOrEmpty == IF _cache.set /\ _cache.items # <<>> THEN _cache.items ELSE <<>>

(* load_tools_sync, were load_tools run to completion whether or not a loop
   is running *)
LoadToolsSyncBlocking(running, group_raises) ==
  LET r == LoadToolsOutcome(group_raises)
  IN  IF r.raised
      THEN [raised |-> FALSE, tools |-> CacheOrEmpty, discovered |-> TRUE]
      ELSE r

(* load_tools_sync, lines 61-80: with a running loop the entry as it is, else
   load_tools run to completion; any exception gives the entry as it is *)
LoadToolsSyncOutcome(running, group_raises) ==
  IF running
  THEN [raised |-> FALSE, tools |-> CacheOrEmpty, discovered |-> FALSE]
  ELSE LET r == LoadToolsOutcome(group_raises)
       IN  IF r.raised
           THEN [raised |-> FALSE, tools |-> CacheOrEmpty, discovered |-> TRUE]
           ELSE r

(* What a call leaves in the class-wide entry: load_tools, lines 56-57 *)
Stored(r) ==
  /\ _cache' = IF r.discovered /\ ~r.raised
               THEN [set |-> TRUE, id |-> _cache.id + 1, items |-> r.tools]
               ELSE _cache
  /\ _cache_ts' = IF r.discovered /\ ~r.raised THEN Stamp ELSE _cache_ts
  /\ UNCHANGED <<_lock, waiters, now, _ttl, lpc, ret, discover_count, ran,
                 hist, refreshes, refreshed_at>>

Recorded(api, running, r) ==
  /\ loads' = Append(loads, [api |-> api, running |-> running,
                             raised |-> r.raised, tools |-> r.tools,
                             discovered |-> r.discovered])
  /\ UNCHANGED <<registry, environ, mcp_servers, has_toolset, debug>>

(* await loader.load_tools() *)
load_tools ==
  /\ Len(loads) < MaxLoads
  /\ \E group_raises \in BOOLEAN :
       LET r == LoadToolsOutcome(group_raises)
       IN  Stored(r) /\ Recorded("load_tools", TRUE, r)

(* loader.load_tools_sync() *)
load_tools_sync ==
  /\ Len(loads) < MaxLoads
  /\ \E running \in BOOLEAN, group_raises \in BOOLEAN :
       LET r == LoadToolsSyncOutcome(running, group_raises)
       IN  Stored(r) /\ Recorded("load_tools_sync", running, r)

Behaviours == {"tools", "nothing", "raises"}

ServerSetup(n) ==
  [server_name : {n}, requires_user_auth : BOOLEAN, behaviour : Behaviours]

(* One or two servers, in either order *)
ServerSetups ==
  {<<x>> : x \in UNION {ServerSetup(n) : n \in ServerNames}}
    \cup {<<x, y>> : x \in ServerSetup(<<"jira">>), y \in ServerSetup(<<"git">>)}
    \cup {<<y, x>> : x \in ServerSetup(<<"jira">>), y \in ServerSetup(<<"git">>)}

DiscoverInit ==
  /\ registry \in {"unset", "fails", "servers"}
  /\ environ \in {"fails", "servers"}
  /\ mcp_servers \in ServerSetups
  /\ has_toolset \in BOOLEAN
  /\ debug \in BOOLEAN
  /\ loads = <<>>
  /\ HAVE_ADK \in BOOLEAN

DiscoverIdle ==
  /\ registry = "unset"
  /\ environ = "fails"
  /\ mcp_servers = <<>>
  /\ has_toolset = FALSE
  /\ debug = FALSE
  /\ loads = <<>>

----------------------------------------------------------------------------
(* Start-up: AgentService.__init__ with _load_from_registry, and
   utils.registry.fetch_agent_config, which runs the same fetch loop.  The
   service's fields are those of the dispatcher above. *)

VARIABLES
  loader,       \* who fetches: "service" (AgentService.__init__) or "util"
  agent_id,     \* AGENT_ID: None or the id
  attempt,      \* the loop variable of for attempt in range(3)
  requests,     \* the outcomes of the httpx.get calls made, in order
  sleeps,       \* how many time.sleep(2) calls were made
  agent_data,   \* self.agent_data / what fetch_agent_config returns
  pending,      \* the role configs the for loop of lines 177-186 has yet to build
  roles_by_name,\* AgentService.roles_by_name, as the set of its keys
  spc           \* "start", "fetching", "building", "ready", "raised", "returned"

uvars == <<loader, agent_id, attempt, requests, sleeps, agent_data, pending,
           roles_by_name, spc>>

RegistryAttempts == 3

GeneralRole == <<"general">>
AgentRole == <<"agent">>

(* What one request to {registry_url}/agents/{agent_id} may give: a failure
   (connection error, timeout, error status, a body that is no JSON), or the
   JSON body *)
NoData == [kind |-> "none"]
Failure == [kind |-> "failure"]
RoleConfigLists ==
  {<<>>, <<[name |-> <<"a">>]>>, <<[name |-> None]>>,
   <<[name |-> <<"a">>], [name |-> <<"B">>]>>,
   <<[name |-> <<"a">>], [name |-> <<"a">>]>>}

AgentDatas ==
  [kind : {"object"}, has_config : {FALSE}, execution_type : {"single"},
   roles : {<<>>}]
    \cup [kind : {"object"}, has_config : {TRUE},
          execution_type : {"single", "sequential", "loop"},
          roles : RoleConfigLists]

Answers == {Failure} \cup AgentDatas

(* The fallback branches, were they to return without a legacy role *)
LegacyAgentsNone == UNCHANGED <<agents, roles_by_name>>

(* BaseAgent() with no arguments, then lines 152-153: the legacy role, its
   name from AGENT_ROLE or "general" *)
LegacyAgents ==
  /\ agents' = <<GeneralRole>>
  /\ roles_by_name' = {GeneralRole}

(* role_config.get("name", "agent"), then BaseAgent's role or AGENT_ROLE *)
RoleNameOf(rc) ==
  IF rc.name = None THEN AgentRole
  ELSE IF rc.name = <<>> THEN GeneralRole
  ELSE rc.name

StartupFrame ==
  UNCHANGED <<user_message, pc, calls, context, results, selected, idx, lead,
              combined, completed, result>>

(* AgentService.__init__, lines 96-124: the fields at their defaults, then the
   legacy role when AGENT_ID is not set; BaseAgent() reads its prompt file
   without a guard, so it may raise *)
Construct ==
  /\ spc = "start" /\ loader = "service"
  /\ IF agent_id # None
     THEN /\ spc' = "fetching"
          /\ UNCHANGED <<agents, roles_by_name>>
     ELSE \E built \in BOOLEAN :
            IF built THEN LegacyAgents /\ spc' = "ready"
            ELSE spc' = "raised" /\ UNCHANGED <<agents, roles_by_name>>
  /\ UNCHANGED <<execution_type, runtime_config, loader, agent_id, attempt,
                 requests, sleeps, agent_data, pending>>
  /\ StartupFrame

(* fetch_agent_config(agent_id), lines 8-15 *)
fetch_agent_config ==
  /\ spc = "start" /\ loader = "util"
  /\ spc' = "fetching"
  /\ UNCHANGED <<execution_type, agents, runtime_config, loader, agent_id,
                 attempt, requests, sleeps, agent_data, pending, roles_by_name>>
  /\ StartupFrame

(* Lines 156-174 of _load_from_registry, once agent_data is there: the legacy
   role when there is no runtime_config or no role in it, else the loop over
   the roles starts *)
Configure(data) ==
  IF ~data.has_config
  THEN \E built \in BOOLEAN :
         IF built THEN LegacyAgents /\ spc' = "ready"
                       /\ UNCHANGED <<execution_type, runtime_config, pending>>
         ELSE spc' = "raised"
              /\ UNCHANGED <<agents, roles_by_name, execution_type,
                             runtime_config, pending>>
  ELSE /\ runtime_config' = DefaultConfig
       /\ execution_type' = data.execution_type
       /\ IF data.roles = <<>>
          THEN \E built \in BOOLEAN :
                 IF built THEN LegacyAgents /\ spc' = "ready" /\ pending' = pending
                 ELSE spc' = "raised" /\ UNCHANGED <<agents, roles_by_name, pending>>
          ELSE /\ pending' = data.roles
               /\ spc' = "building"
               /\ UNCHANGED <<agents, roles_by_name>>

(* The legacy fallback of lines 150-154 *)
Exhausted ==
  \E built \in BOOLEAN :
    IF built THEN LegacyAgents /\ spc' = "ready"
    ELSE spc' = "raised" /\ UNCHANGED <<agents, roles_by_name>>

(* The loop of three attempts with no limit on the attempt number *)
MoreAttemptsAlways(n) == TRUE

(* for attempt in range(3), line 146 / line 28: another attempt follows *)
MoreAttempts(n) == n < RegistryAttempts - 1

(* One turn of the fetch loop: the request; on success the loop ends, on
   failure it sleeps and goes on, or gives up after the last attempt *)
FetchAttempt ==
  /\ spc = "fetching"
  /\ \E answer \in Answers :
       /\ requests' = Append(requests, answer.kind)
       /\ IF answer.kind = "object"
          THEN /\ agent_data' = answer
               /\ UNCHANGED <<attempt, sleeps>>
               /\ IF loader = "service"
                  THEN Configure(answer)
                  ELSE /\ spc' = "returned"
                       /\ UNCHANGED <<execution_type, agents, runtime_config,
                                      pending, roles_by_name>>
          ELSE /\ agent_data' = agent_data
               /\ IF MoreAttempts(attempt)
                  THEN /\ attempt' = attempt + 1
                       /\ sleeps' = sleeps + 1
                       /\ spc' = "fetching"
                       /\ UNCHANGED <<execution_type, agents, runtime_config,
                                      pending, roles_by_name>>
                  ELSE /\ UNCHANGED <<attempt, sleeps, pending>>
                       /\ IF loader = "service"
                          THEN /\ Exhausted
                               /\ UNCHANGED <<execution_type, runtime_config>>
                          ELSE /\ spc' = "returned"
                               /\ UNCHANGED <<execution_type, agents,
                                              runtime_config, roles_by_name>>
  /\ UNCHANGED <<loader, agent_id>>
  /\ StartupFrame

(* Lines 185-186: the BaseAgent of the role joins the agents and is entered
   under its name *)
AppendRole(role) ==
  /\ agents' = Append(agents, role)
  /\ roles_by_name' = roles_by_name \cup {role}

(* One turn of the loop of lines 177-186: the role's prompt is resolved, which
   may raise, and its BaseAgent is appended and entered under its name *)
BuildRole ==
  /\ spc = "building"
  /\ \E resolved \in BOOLEAN :
       IF resolved
       THEN LET role == RoleNameOf(Head(pending))
            IN  /\ AppendRole(role)
                /\ pending' = Tail(pending)
                /\ spc' = IF Tail(pending) = <<>> THEN "ready" ELSE "building"
       ELSE /\ spc' = "raised"
            /\ UNCHANGED <<agents, roles_by_name, pending>>
  /\ UNCHANGED <<execution_type, runtime_config, loader, agent_id, attempt,
                 requests, sleeps, agent_data>>
  /\ StartupFrame

(* The same loop body, lines 177-186, for one role with its whole config and
   what each prompt source answers: the prompt is resolved and the role's
   BaseAgent is constructed with it, joins the agents and is entered under its
   name.  Nothing is appended when the resolution raises, or when BaseAgent
   raises: given an empty prompt it reads its own prompt file, without a
   guard (line 55) *)
BuildBaseAgent ==
  /\ resolver = "none"
  /\ \E l \in LiteLLMAnswers, r \in RegistryAnswers, f \in ServiceFiles :
       LET src == [kind |-> "service", litellm |-> l, registry |-> r, file |-> f]
           prompt == _resolve_prompt(role_config, src)
       IN  /\ sources' = src
           /\ resolution' = prompt
           /\ \E built \in BOOLEAN :
                IF prompt.raised \/ (prompt.text = <<>> /\ ~built)
                THEN UNCHANGED <<agents, roles_by_name>>
                ELSE AppendRole(RoleNameOf(role_config))
  /\ resolver' = "service"
  /\ UNCHANGED <<role_config, prompts>>
  /\ UNCHANGED <<execution_type, runtime_config, loader, agent_id, attempt,
                 requests, sleeps, agent_data, pending, spc>>
  /\ StartupFrame

StartupInit ==
  /\ loader \in {"service", "util"}
  /\ agent_id \in (IF loader = "service" THEN {None, <<"id">>} ELSE {<<"id">>})
  /\ attempt = 0
  /\ requests = <<>>
  /\ sleeps = 0
  /\ agent_data = NoData
  /\ pending = <<>>
  /\ roles_by_name = {}
  /\ spc = "start"
  /\ execution_type = "single"
  /\ agents = <<>>
  /\ runtime_config = DefaultConfig
  /\ user_message = <<"Q">>
  /\ pc = "idle"
  /\ calls = <<>>
  /\ context = None
  /\ results = <<>>
  /\ selected = <<>>
  /\ idx = 0
  /\ lead = None
  /\ combined = None
  /\ completed = <<>>
  /\ result = None

(* Start-up over, in the specifications of the other components *)
StartupIdle ==
  /\ loader = "service"
  /\ agent_id = None
  /\ attempt = 0
  /\ requests = <<>>
  /\ sleeps = 0
  /\ agent_data = NoData
  /\ pending = <<>>
  /\ roles_by_name = {agents[i] : i \in 1..Len(agents)}
  /\ spc = "ready"

----------------------------------------------------------------------------
(* The agent factory: AgentFactory.build and its builders.  An agent is a
   record with its kind; a runtime config holds each key with the default
   its .get gives, so AgentFactory(None, ...) is the config of defaults. *)

VARIABLES
  factory_config,    \* AgentFactory.runtime_config, and whether one was given
  resolved_prompts,  \* AgentFactory.resolved_prompts: given or None, and the mapping
  product            \* what build() returned, or that it raised

fvars == <<factory_config, resolved_prompts, product>>

DefaultModel == <<"gpt-4o-mini">>
DefaultIterations == 5

(* The prompt sources of resolve_prompt that need the network or the disk,
   all declining *)
QuietSources ==
  [kind |-> "factory", phoenix |-> Outcome("unconfigured"),
   registry2 |-> Outcome("no_url"),
   files |-> [txt |-> Outcome("missing"), md |-> Outcome("missing"),
              default |-> Outcome("missing")]]

(* An entry of the tools list of a config: a string, a dict with its id (""
   when it has none), provider and active, each at the default its .get
   gives when the key is absent, or a value that is neither *)
StrTool(id) == [type |-> "str", id |-> id, provider |-> "builtin", active |-> TRUE]
DictTool(id, provider, active) ==
  [type |-> "dict", id |-> id, provider |-> provider, active |-> active]
OtherItem == [type |-> "other", id |-> "", provider |-> "", active |-> FALSE]

(* _load_tools, lines 124-143: whether the entry gives a FunctionTool *)
GivesTool(cfg) ==
  /\ cfg.type \in {"str", "dict"}
  /\ cfg.active
  /\ cfg.provider = "builtin"

(* FunctionTool(tool_id or "unknown"), as its name *)
FunctionTool(tool_id) == IF tool_id = "" THEN "unknown" ELSE tool_id

(* _load_tools, were the builtin tools of the configuration always added *)
DefaultsAlways(tool_configs) == TRUE

(* _load_tools, line 145: if not tool_configs *)
DefaultsWanted(tool_configs) == tool_configs = <<>>

(* agent_factory._load_tools: a FunctionTool per configured entry that gives
   one, the builtin tools of the configuration (those with an id) when no
   entry is configured, then the tools the MCP loader has *)
_load_tools(tool_configs, builtin, mcp) ==
  LET kept == SelectSeq(tool_configs, GivesTool)
  IN  [i \in 1..Len(kept) |-> FunctionTool(kept[i].id)]
        \o (IF DefaultsWanted(tool_configs)
             THEN SelectSeq(builtin, LAMBDA bid : bid # "") ELSE <<>>)
        \o mcp

(* agent_factory._build_llm_agent: name, model and instruction of the role *)
BuildLlmAgent(rc, prompts_, tools_) ==
  [kind |-> "LlmAgent",
   name |-> IF rc.name # None THEN rc.name ELSE AgentRole,
   model |-> <<"litellm/">> \o (IF rc.model # None THEN rc.model ELSE DefaultModel),
   instruction |-> resolve_prompt(rc, prompts_, QuietSources).text,
   tools |-> tools_]

Built(agent) == [raised |-> FALSE, agent |-> agent]
BuildRaised == [raised |-> TRUE, agent |-> [kind |-> "none"]]

SubAgents(roles, prompts_, tools_) ==
  [i \in 1..Len(roles) |-> BuildLlmAgent(roles[i], prompts_, tools_)]

(* [r for r in roles if r.get("name") != name] *)
RolesOtherThan(roles, name) == SelectSeq(roles, LAMBDA r : r.name # name)

(* next((r for r in roles if r.get("name") == name), otherwise) *)
RoleNamed(roles, name, otherwise) ==
  LET at == {i \in 1..Len(roles) : roles[i].name = name}
  IN  IF at = {} THEN otherwise
      ELSE roles[CHOOSE i \in at : \A j \in at : i <= j]

AgentTool(agent) == [kind |-> "AgentTool", name |-> agent.name]

(* AgentFactory._build_sequential *)
_build_sequential(roles, prompts_, tools_) ==
  Built([kind |-> "SequentialAgent", name |-> <<"pipeline">>,
         sub_agents |-> SubAgents(roles, prompts_, tools_)])

(* _build_parallel, were the aggregator left in the fan-out *)
FanOutRolesAll(roles, aggregator_name) == roles

(* _build_parallel, line 227: the roles of the fan-out *)
FanOutRoles(roles, aggregator_name) == RolesOtherThan(roles, aggregator_name)

(* AgentFactory._build_parallel *)
_build_parallel(roles, prompts_, config, tools_) ==
  LET aggregator_name == config.aggregator_role
      parallel == [kind |-> "ParallelAgent", name |-> <<"fan_out">>,
                   sub_agents |-> SubAgents(FanOutRoles(roles, aggregator_name),
                                            prompts_, tools_)]
      agg_config == RoleNamed(roles, aggregator_name, [name |-> None])
  IN  IF aggregator_name # None /\ agg_config.name # None
      THEN Built([kind |-> "SequentialAgent", name |-> <<"parallel_gather">>,
                  sub_agents |-> <<parallel,
                                   BuildLlmAgent(agg_config, prompts_, tools_)>>])
      ELSE Built(parallel)

(* AgentFactory._build_loop *)
_build_loop(roles, prompts_, config, tools_) ==
  Built([kind |-> "LoopAgent", name |-> <<"refiner">>,
         sub_agents |-> SubAgents(roles, prompts_, tools_),
         max_iterations |-> config.max_iterations])

(* LlmAgent.__init__ of the stand-in class, line 28: self.tools = tools or [].
   The agent holds the very list it is given, unless that list is empty, when
   it gets a new list of its own.  Every agent of a build is given
   self._tools. *)
HoldsGivenList(tools_) == tools_ # <<>>

(* AgentFactory._build_coordinator and _build_hub_spoke: the lead role, or the
   first role when it is not declared, with the other roles as its tools;
   roles[0] raises on an empty role list.  tools.extend grows the list the
   lead holds, in place: when that is the list it was given, the factory's
   _tools and the tools of every other agent of the build are that same list
   and hold the agent-tools as well.  workers and factory_tools are the
   other agents and self._tools as they are once the build is over. *)
LeadWithTools(roles, prompts_, lead_role, tools_) ==
  IF roles = <<>> THEN BuildRaised
  ELSE LET others == SubAgents(RolesOtherThan(roles, lead_role), prompts_, tools_)
           lead_agent == BuildLlmAgent(RoleNamed(roles, lead_role, roles[1]),
                                       prompts_, tools_)
           extended == tools_ \o [i \in 1..Len(others) |-> AgentTool(others[i])]
           given_list == IF HoldsGivenList(tools_) THEN extended ELSE tools_
       IN  [raised |-> FALSE,
            agent |-> [lead_agent EXCEPT !.tools = extended],
            workers |-> [i \in 1..Len(others) |->
                           [others[i] EXCEPT !.tools = given_list]],
            factory_tools |-> given_list]

(* A role config with this name and no other key *)
FactoryRole(n) ==
  [name |-> n, model |-> None, instruction |-> None, phoenix_prompt_id |-> None]

(* AgentFactory._build_hybrid *)
_build_hybrid(roles, prompts_, config, tools_) ==
  IF Len(roles) < 2
  THEN Built(BuildLlmAgent(IF roles # <<>> THEN roles[1] ELSE FactoryRole(None),
                           prompts_, tools_))
  ELSE Built([kind |-> "HybridOrchestrator", name |-> <<"hybrid_orchestrator">>,
              slm_agent |-> BuildLlmAgent(roles[1], prompts_, tools_),
              llm_agent |-> BuildLlmAgent(roles[2], prompts_, tools_)])

(* AgentFactory.build, were an unsupported execution_type refused *)
BuildFallbackRaises(config, prompts_, tools_) == BuildRaised

(* AgentFactory.build, lines 215-216: any other execution_type *)
BuildFallback(config, prompts_, tools_) == Built(BuildLlmAgent(config, prompts_, tools_))

(* AgentFactory.build *)
Build(config, prompts_, tools_) ==
  LET execution_type_ == config.execution_type
  IN  CASE execution_type_ = "single" -> Built(BuildLlmAgent(config, prompts_, tools_))
        [] execution_type_ = "sequential" -> _build_sequential(config.roles, prompts_, tools_)
        [] execution_type_ = "parallel" ->
             _build_parallel(config.roles, prompts_, config, tools_)
        [] execution_type_ = "loop" -> _build_loop(config.roles, prompts_, config, tools_)
        [] execution_type_ = "coordinator" ->
             LeadWithTools(config.roles, prompts_, config.coordinator_role, tools_)
        [] execution_type_ = "hub-spoke" ->
             LeadWithTools(config.roles, prompts_, config.hub_role, tools_)
        [] execution_type_ = "hybrid" -> _build_hybrid(config.roles, prompts_, config, tools_)
        [] OTHER -> BuildFallback(config, prompts_, tools_)

BuiltinTools == {<<>>, <<"code_search", "", "get_file_summary">>}

(* _load_tools, line 158: the id under which a tool of the MCP loader becomes
   a FunctionTool: its tool_id, else its id, else str(t).  The tools here
   have a name and a function and neither tool_id nor id, so the id is
   str(t), the default representation of the object, which names its class
   (the address in it is left out): FunctionTool for a mock tool, the class
   of the toolset's tools otherwise *)
ToolIdOf(t) ==
  IF t.name[Len(t.name)] = "_auth_tool" THEN "<FunctionTool object>"
  ELSE "<tool object>"

(* factory.build(): the tools are loaded, then the agent is built.  Loading
   the tools calls MCPToolLoader().load_tools_sync() (lines 155-156), which
   without a running loop runs load_tools to completion and so refreshes the
   class-wide entry; the tools added are the ones that call returns *)
build ==
  /\ product.kind = "none"
  /\ \E builtin \in BuiltinTools, running \in BOOLEAN, group_raises \in BOOLEAN :
       LET r == LoadToolsSyncOutcome(running, group_raises)
           mcp == [i \in 1..Len(r.tools) |-> ToolIdOf(r.tools[i])]
           tools_ == _load_tools(factory_config.tools, builtin, mcp)
           b == Build(factory_config, resolved_prompts.map, tools_)
       IN  /\ product' = [kind |-> IF b.raised THEN "raised" ELSE "built",
                          agent |-> b.agent, tools |-> tools_,
                          builtin |-> builtin, mcp |-> mcp,
                          workers |-> IF "workers" \in DOMAIN b THEN b.workers
                                      ELSE <<>>,
                          factory_tools |-> IF "factory_tools" \in DOMAIN b
                                            THEN b.factory_tools ELSE tools_]
           /\ Stored(r)
           /\ Recorded("load_tools_sync", running, r)
  /\ UNCHANGED <<factory_config, resolved_prompts>>

(* The tools lists of the configs: none, a string, the list of the unit test
   (two invalid items around a dict and a string), entries that all give
   nothing, and a dict without id among entries of other providers *)
ToolConfigLists ==
  { <<>>,
    <<StrTool("tool-a")>>,
    <<OtherItem, DictTool("tool1", "builtin", TRUE), StrTool("tool2"), OtherItem>>,
    <<DictTool("m", "mcp", TRUE), DictTool("off", "builtin", FALSE), OtherItem>>,
    <<DictTool("", "builtin", TRUE), DictTool("c", "custom", TRUE), StrTool("tool-a")>> }

FactoryRoleLists ==
  { <<>>,
    <<FactoryRole(<<"r1">>)>>,
    <<FactoryRole(<<"r1">>), FactoryRole(<<"agg">>)>>,
    <<FactoryRole(<<"agg">>), FactoryRole(<<"r1">>), FactoryRole(<<"r2">>)>>,
    <<FactoryRole(<<"r1">>), FactoryRole(<<"r2">>)>> }

(* AgentFactory(None, ...): runtime_config or {} *)
DefaultFactoryConfig ==
  [given |-> FALSE, execution_type |-> "single", name |-> None, model |-> None,
   instruction |-> None, phoenix_prompt_id |-> None, tools |-> <<>>,
   roles |-> <<>>, aggregator_role |-> None, coordinator_role |-> None,
   hub_role |-> None, max_iterations |-> DefaultIterations]

FactoryTypes == ExecTypes \cup {"unsupported_type"}
LeadChoices == {None, <<"r1">>, <<"agg">>, <<"zz">>}

FactoryConfigsFor(t) ==
  LET base == {[DefaultFactoryConfig EXCEPT !.given = TRUE, !.execution_type = t,
                  !.name = n, !.model = m, !.instruction = ins, !.tools = tl,
                  !.roles = rl] :
                 n \in {None, <<"main">>}, m \in {None, <<"gpt-4o">>},
                 ins \in {None, <<"I">>}, tl \in ToolConfigLists,
                 rl \in FactoryRoleLists}
  IN  CASE t = "parallel" ->
             {[c EXCEPT !.aggregator_role = g] : c \in base, g \in LeadChoices}
        [] t = "coordinator" ->
             {[c EXCEPT !.coordinator_role = g] : c \in base, g \in LeadChoices}
        [] t = "hub-spoke" -> {[c EXCEPT !.hub_role = g] : c \in base, g \in LeadChoices}
        [] OTHER -> base

FactoryPrompts ==
  {[given |-> FALSE, map |-> NoVariables], [given |-> TRUE, map |-> NoVariables],
   [given |-> TRUE, map |-> [k \in {<<"r1">>} |-> <<"M">>]]}

NoProduct == [kind |-> "none"]

FactoryInit ==
  /\ factory_config \in
       {DefaultFactoryConfig} \cup UNION {FactoryConfigsFor(t) : t \in FactoryTypes}
  /\ resolved_prompts \in FactoryPrompts
  /\ product = NoProduct

(* The MCP servers a factory may find configured: none; one in MCP_SERVERS
   that needs no user authentication and gives its tool; one whose toolset
   raises, with DEBUG_MCP_TOOLS set *)
FactoryEnvironments ==
  { [registry |-> "unset", environ |-> "fails", mcp_servers |-> <<>>,
     has_toolset |-> FALSE, debug |-> FALSE],
    [registry |-> "unset", environ |-> "servers",
     mcp_servers |-> <<[server_name |-> <<"jira">>, requires_user_auth |-> FALSE,
                        behaviour |-> "tools"]>>,
     has_toolset |-> TRUE, debug |-> FALSE],
    [registry |-> "unset", environ |-> "servers",
     mcp_servers |-> <<[server_name |-> <<"jira">>, requires_user_auth |-> FALSE,
                        behaviour |-> "raises"]>>,
     has_toolset |-> TRUE, debug |-> TRUE] }

(* The servers of the factory's process and the loader's class attributes as
   they are defined (lines 27-30), before any call of the loader; the clock
   is past 0, so the stamp of a refresh shows *)
FactoryDiscoverInit ==
  /\ _cache = NoEntry
  /\ LoaderAtRest(1)
  /\ \E env \in FactoryEnvironments :
       /\ registry = env.registry
       /\ environ = env.environ
       /\ mcp_servers = env.mcp_servers
       /\ has_toolset = env.has_toolset
       /\ debug = env.debug
  /\ loads = <<>>

FactoryIdle ==
  /\ factory_config = DefaultFactoryConfig
  /\ resolved_prompts = [given |-> FALSE, map |-> NoVariables]
  /\ product = [kind |-> "idle"]

----------------------------------------------------------------------------
(* The A2A executors: ReusableAgentExecutor.execute (agent.py) and
   ADKAgentExecutor.execute (agent_executor.py).  Every enqueue_event is
   awaited, so each is a step of its own; the event queue is the one of the
   request being served. *)

VARIABLES
  executor,      \* the class of the executor
  backend,       \* what computes the result: "service" (handle_task),
                 \* "runner" (_runner.run), "coroutine" / "callable" (the
                 \* agent's invoke), "none" (no callable invoke)
  service_name,  \* service.agent_data.get("name"), None without agent_data
  request,       \* context.message (None when absent) and context.current_task
  event_queue,   \* the events enqueued for the request, in order
  executions,    \* how many execute() calls were made
  epc            \* where execute stands

evars == <<executor, backend, service_name, request, event_queue, executions, epc>>

MaxExecutions == 2

Executors == {"ReusableAgentExecutor", "ADKAgentExecutor"}
BackendsOf(e) ==
  IF e = "ReusableAgentExecutor" THEN {"service"}
  ELSE {"runner", "coroutine", "callable", "none"}

Requests == [message : {None, <<"Q">>, <<"hi">>}, current_task : BOOLEAN]
NoRequest == [message |-> None, current_task |-> FALSE]

(* context.get_user_input(): the text of the message, empty without one *)
get_user_input(req) == IF req.message = None THEN <<>> ELSE req.message

(* What handle_task, _runner.run or the agent's invoke may do: return a text
   or raise; without a callable invoke the result is "" *)
ExecResults == {<<"R">>, <<>>}
ExecOutcomes(b) ==
  IF b = "none" THEN {[raised |-> FALSE, text |-> <<>>]}
  ELSE [raised : {FALSE}, text : ExecResults] \cup {[raised |-> TRUE, text |-> <<"boom">>]}

(* new_task(context.message) *)
new_task(message) ==
  [kind |-> "task", state |-> "submitted", final |-> FALSE, name |-> None,
   text |-> message]

(* service_desc of the working status *)
service_desc ==
  IF executor = "ReusableAgentExecutor"
  THEN <<execution_type, " (">> \o Join(CommaSpace, agents) \o <<")">>
  ELSE <<"ADK ", IF backend = "runner" THEN "Runner" ELSE "fallback">>

WorkingStatus ==
  [kind |-> "status", state |-> "working", final |-> FALSE, name |-> None,
   text |-> <<"Processing [">> \o service_desc \o <<"]...">>]

(* The failed status, were it enqueued with final=False *)
FailedStatusNotFinal ==
  [kind |-> "status", state |-> "failed", final |-> FALSE, name |-> None,
   text |-> <<"Agent execution failed.">>]

FailedStatus ==
  [kind |-> "status", state |-> "failed", final |-> TRUE, name |-> None,
   text |-> <<"Agent execution failed.">>]

(* The artifact: named {name}_result, name being "agent" without agent_data
   or without a name in it *)
ArtifactEvent(text) ==
  [kind |-> "artifact", state |-> "none", final |-> FALSE,
   name |-> (IF service_name = None THEN <<"agent">> ELSE service_name)
              \o <<"_result">>,
   text |-> text]

CompletedStatus ==
  [kind |-> "status", state |-> "completed", final |-> TRUE, name |-> None,
   text |-> None]

(* execute, up to its first await: ReusableAgentExecutor raises ValueError
   without a message, ADKAgentExecutor takes the user text for the message;
   the new task is enqueued when the context has none, else the working
   status is *)
execute ==
  /\ epc \in {"idle", "returned", "raised"}
  /\ executions < MaxExecutions
  /\ executions' = executions + 1
  /\ \E req \in Requests :
       IF req.message = None /\ executor = "ReusableAgentExecutor"
       THEN /\ request' = req
            /\ event_queue' = <<>>
            /\ epc' = "raised"
       ELSE /\ request' = [req EXCEPT !.message = IF req.message = None
                                                  THEN get_user_input(req)
                                                  ELSE req.message]
            /\ IF ~req.current_task
               THEN /\ event_queue' = <<new_task(request'.message)>>
                    /\ epc' = "task"
               ELSE /\ event_queue' = <<WorkingStatus>>
                    /\ epc' = "working"
  /\ UNCHANGED <<executor, backend, service_name>>

(* The task enqueued, the working status follows *)
EnqueueWorking ==
  /\ epc = "task"
  /\ event_queue' = Append(event_queue, WorkingStatus)
  /\ epc' = "working"
  /\ UNCHANGED <<executor, backend, service_name, request, executions>>

(* The awaited computation ends: on an exception the failed status is
   enqueued and execute returns, otherwise the artifact is enqueued *)
ResultReturn ==
  /\ epc = "working"
  /\ \E o \in ExecOutcomes(backend) :
       IF o.raised
       THEN /\ event_queue' = Append(event_queue, FailedStatus)
            /\ epc' = "returned"
       ELSE /\ event_queue' = Append(event_queue, ArtifactEvent(o.text))
            /\ epc' = "artifact"
  /\ UNCHANGED <<executor, backend, service_name, request, executions>>

(* The artifact enqueued, the completed status follows and execute returns *)
EnqueueCompleted ==
  /\ epc = "artifact"
  /\ event_queue' = Append(event_queue, CompletedStatus)
  /\ epc' = "returned"
  /\ UNCHANGED <<executor, backend, service_name, request, executions>>

ExecutorInit ==
  /\ executor \in Executors
  /\ backend \in BackendsOf(executor)
  /\ service_name \in {None, <<"svc">>}
  /\ request = NoRequest
  /\ event_queue = <<>>
  /\ executions = 0
  /\ epc = "idle"

(* The class-wide entry of the MCP loader once the executor is constructed.
   ADKAgentExecutor.__init__ (lines 46-67) builds its agent with
   factory.build(), whose load_tools_sync, with no MCP server configured,
   stores the empty list it discovers, unless a loop is running, when the
   entry stays None; ReusableAgentExecutor.__init__ builds no factory *)
CacheAfterConstruction ==
  /\ _cache \in (IF executor = "ADKAgentExecutor"
                 THEN {NoEntry, [set |-> TRUE, id |-> 1, items |-> <<>>]}
                 ELSE {NoEntry})
  /\ LoaderAtRest(0)

(* No request being served, in the specifications of the other components *)
ExecutorIdle ==
  /\ executor = "ReusableAgentExecutor"
  /\ backend = "service"
  /\ service_name = None
  /\ request = NoRequest
  /\ event_queue = <<>>
  /\ executions = 0
  /\ epc = "idle"

----------------------------------------------------------------------------
(* Properties of prompt resolution, checked under SpecPrompt *)

(* C7: for every role config with a non-empty prompt_inline, the resolution
   that binds the role's instruction, in the service and in the agent factory
   alike, returns exactly prompt_inline and asks no other source. *)
C7_InlineReturnedExactly ==
  (resolver # "none" /\ Truthy(role_config.prompt_inline))
    => resolution = Resolved(role_config.prompt_inline, {})

(* C8: prompt resolution never raises and always returns a non-empty
   instruction, whatever the role config, the prompts mapping and the
   outcomes of the network and filesystem sources. *)
C8_NeverRaisesNonEmpty ==
  resolver # "none" => (~resolution.raised /\ Truthy(resolution.text))

(* Each placeholder whose key is among the variables replaced by its value,
   every other atom as written *)
RECURSIVE SubstituteKnown(_, _)
SubstituteKnown(template, variables) ==
  IF template = <<>> THEN <<>>
  ELSE (IF template[1] \in Placeholders /\ KeyOf(template[1]) \in DOMAIN variables
        THEN variables[KeyOf(template[1])]
        ELSE <<template[1]>>) \o SubstituteKnown(Tail(template), variables)

HasPlaceholder(template) ==
  /\ \E i \in 1..Len(template) : template[i] \in Placeholders
  /\ \A i \in 1..Len(template) : template[i] # LoneBrace

(* C19: when the body fetched for a prompt_ref holds placeholders and the
   role has variables, the resolved text is the body with every placeholder
   of a known key replaced by its value and every placeholder of a missing
   key left as written *)
C19_KnownPlaceholdersReplaced ==
  (/\ resolver = "service"
   /\ ~Truthy(role_config.prompt_inline)
   /\ Truthy(role_config.prompt_ref)
   /\ DOMAIN role_config.metadata # {}
   /\ sources.litellm.kind = "content"
   /\ HasPlaceholder(_parse_dotprompt_body(sources.litellm.text)))
  => /\ ~resolution.raised
     /\ resolution.text = SubstituteKnown(_parse_dotprompt_body(sources.litellm.text),
                                          role_config.metadata)

(* What each source of resolve_prompt holds for the role, in the order
   Phoenix, prompts mapping, instruction, registry, local file *)
SourceTexts ==
  LET named == Truthy(role_config.name)
  IN  << _try_phoenix_prompt(role_config, sources.phoenix),
         IF role_config.name \in DOMAIN prompts THEN prompts[role_config.name] ELSE None,
         role_config.instruction,
         IF named THEN _read_from_registry(sources.registry2) ELSE None,
         IF named THEN _read_from_file(sources.files) ELSE None >>

SourceOrder == <<"phoenix", "mapping", "instruction", "registry", "file">>

UsableSources == {i \in 1..Len(SourceTexts) : Truthy(SourceTexts[i])}

(* C20: resolve_prompt returns the text of the first source, in the order
   Phoenix, prompts mapping, instruction, registry, local file, that yields a
   usable text; a source is consulted only if no earlier one did; when none
   does, the result is exactly "You are an AI assistant." *)
C20_FixedOrderThenDefault ==
  resolver = "factory" =>
    /\ ~resolution.raised
    /\ \A i \in 1..Len(SourceOrder) :
         SourceOrder[i] \in resolution.asked =>
           \A j \in 1..(i - 1) : j \notin UsableSources
    /\ resolution.text =
         IF UsableSources = {} THEN _default_prompt
         ELSE SourceTexts[CHOOSE i \in UsableSources : \A j \in UsableSources : i <= j]

(* The service resolved a prompt_ref for a role without inline prompt and
   without variables, and LiteLLM answered with a dotprompt: the text of the
   resolution is then the parsed body, whenever that body is not empty *)
ParsedByService ==
  /\ resolver = "service"
  /\ ~Truthy(role_config.prompt_inline) /\ Truthy(role_config.prompt_ref)
  /\ DOMAIN role_config.metadata = {}
  /\ sources.litellm.kind = "content" /\ sources.litellm.text # <<>>

(* C39: for content whose first line is --- and which has a second --- line,
   the body is exactly the text after that second line, trimmed, with no line
   of the header; for content that does not start with --- or has no closing
   --- line, the body is the whole content, trimmed *)
C39_BodyAfterSecondDelimiter ==
  ParsedByService =>
    LET content == sources.litellm.text
        lines == Split(content, "\n")
        delimiters == {i \in 2..Len(lines) : Strip(lines[i]) = <<"---">>}
        second == CHOOSE i \in delimiters : \A j \in delimiters : i <= j
        after == Strip(Join(<<"\n">>, SubSeq(lines, second + 1, Len(lines))))
        whole == Strip(content)
        body == IF Truthy(resolution.text) /\ resolution.asked = {"litellm"}
                THEN resolution.text ELSE <<>>
    IN  /\ (Strip(lines[1]) = <<"---">> /\ content[1] = "---" /\ delimiters # {}) =>
             /\ body = after
             /\ after # <<>> => Len(after) < Len(whole)
             /\ \A k \in 1..Len(body) : body[k] # "m"
        /\ (content[1] \notin {"---", "---t"} \/ delimiters = {}) => body = whole

(* A dotprompt whose closing delimiter is indented and whose body holds a
   further --- line was resolved to all the text after the closing delimiter *)
C39_Witness ==
  /\ ParsedByService
  /\ sources.litellm.text =
       <<"---", "\n", "m", "\n", " ", "---", " ", "\n", "B", "\n", "---", "\n", "C", "\n">>
  /\ resolution.text = <<"B", "\n", "---", "\n", "C">>

----------------------------------------------------------------------------
(* Properties of the tool cache, checked under SpecCache *)

AllDone == \A p \in Callers : lpc[p] = "done"
AllCalledOnEmpty == \A p \in Callers : hist[p].empty_at_call

(* C3 as stated: N callers that all call load_tools while the cache is empty
   make _discover_tools run exactly once, and all return that one list. *)
C3_ExactlyOneDiscovery ==
  (AllDone /\ AllCalledOnEmpty) =>
    /\ discover_count = 1
    /\ \A p \in Callers : ret[p].set /\ ret[p].id = 1

(* C3, amended: N callers that all call load_tools while the cache is empty
   make _discover_tools run exactly once, and all return that one list,
   provided no caller tests the entry when its age has reached the ttl of the
   caller's loader (which is every test when that ttl is 0). *)
C3_OneDiscoveryWithinTTL ==
  (/\ AllDone
   /\ AllCalledOnEmpty
   /\ \A p \in Callers : hist[p].absent_at_check \/ hist[p].fresh_at_check) =>
    /\ discover_count = 1
    /\ \A p \in Callers : ret[p] = _cache /\ ret[p].set /\ ret[p].id = 1

C3_Witness ==
  /\ AllDone
  /\ AllCalledOnEmpty
  /\ discover_count = 1
  /\ Cardinality({p \in Callers : hist[p].waited}) = NCallers - 1
  /\ \A p \in Callers : ret[p].id = 1

(* C4: a call starts at most one discovery; it starts none while the entry is
   within the TTL window, so that two calls that return the same entry have
   started at most one discovery between them; a call that tests the entry
   after the TTL has expired (or finds none) starts exactly one; and a call
   made after the TTL has expired returns a newer entry than the expired one,
   from the one discovery it starts unless it had to wait for the lock. *)
C4_DiscoveryPerTTLWindow ==
  /\ \A p \in Callers :
       /\ ran[p] <= 1
       /\ ran[p] = 1 => ~hist[p].fresh_at_discovery
       /\ lpc[p] = "done" => (ran[p] = 1 <=> ~hist[p].fresh_at_check)
       /\ (lpc[p] = "done" /\ ~hist[p].fresh_at_call) =>
            /\ ret[p].id > hist[p].id_at_call
            /\ ~hist[p].waited => ran[p] = 1
       /\ (lpc[p] = "done" /\ hist[p].fresh_at_call) =>
            (ran[p] = 0 /\ ret[p].id = hist[p].id_at_call)
  /\ \A p, q \in Callers :
       (p # q /\ lpc[p] = "done" /\ lpc[q] = "done" /\ ret[p].id = ret[q].id)
         => ran[p] + ran[q] <= 1
  /\ discover_count = Cardinality({p \in Callers : ran[p] = 1})

C4_Witness ==
  \E p, q, r \in Callers :
    /\ lpc[p] = "done" /\ lpc[q] = "done" /\ lpc[r] = "done"
    /\ ran[p] = 1 /\ ret[p].id = 1
    /\ ran[q] = 0 /\ ret[q].id = 1 /\ ~hist[q].waited
    /\ ran[r] = 1 /\ ret[r].id = 2 /\ ~hist[r].absent_at_check /\ ~hist[r].waited
    /\ _ttl[LoaderOf(r)] > 0
    /\ discover_count = 2

(* C16: under every interleaving of load_tools calls, the cache entry is one
   completed refresh: the list in _cache and the stamp in _cache_ts, which a
   reader judges freshness by, are the list and the completion time of the
   same refresh, the latest one; and a list a caller was given stays the list
   of its refresh when later refreshes replace the entry. *)
C16_EntryIsOneRefresh ==
  /\ IF _cache.set
     THEN /\ _cache.id = Len(refreshes)
          /\ _cache.id >= 1
          /\ refreshes[_cache.id] = _cache.items
          /\ _cache_ts = refreshed_at
     ELSE refreshes = <<>>
  /\ \A p \in Callers :
       ret[p].set => /\ ret[p].id \in 1..Len(refreshes)
                     /\ ret[p].items = refreshes[ret[p].id]

C16_Witness ==
  /\ Len(refreshes) = 2
  /\ refreshes[1] # refreshes[2]
  /\ _cache.id = 2
  /\ _cache_ts > 0
  /\ \E p \in Callers : ret[p].set /\ ret[p].id = 1
  /\ \E p \in Callers : lpc[p] = "waiting"

(* The latest discovery found nothing and p's loader takes what it stored as
   fresh: less than its ttl has passed since that discovery returned *)
EmptyEntryFresh(p) ==
  /\ refreshes # <<>>
  /\ refreshes[Len(refreshes)] = <<>>
  /\ now - refreshed_at < _ttl[LoaderOf(p)]

(* C33: once a discovery has yielded the empty list, a load_tools call made
   before the caller's ttl has passed since that discovery returned comes
   back at once with the empty list that was stored, and starts no
   discovery *)
C33_EmptyListIsCached ==
  [][\A p \in Callers :
       (lpc[p] = "idle" /\ lpc'[p] # "idle" /\ EmptyEntryFresh(p)) =>
         /\ lpc'[p] = "done"
         /\ ret'[p] = _cache /\ ret'[p].set /\ ret'[p].items = <<>>
         /\ discover_count' = discover_count
         /\ ran'[p] = 0]_lvars

(* A call made at a later time than the empty discovery it follows returned
   the empty entry without a discovery of its own *)
C33_Witness ==
  \E p \in Callers :
    /\ lpc[p] = "done" /\ ran[p] = 0
    /\ ret[p].set /\ ret[p].items = <<>>
    /\ hist[p].fresh_at_call /\ ~hist[p].waited
    /\ refreshes = << <<>> >>
    /\ now > refreshed_at /\ refreshed_at > 0
    /\ _cache = ret[p]

Discovering == {p \in Callers : lpc[p] = "discovering"}

(* C34: at most one execution of _discover_tools is in progress at any
   moment, whichever loader instances the calls go through, whatever their
   ttl values and however the calls interleave: the one in progress holds
   the class-wide lock, and none ever started while another was running *)
C34_OneDiscoveryAtATime ==
  /\ Cardinality(Discovering) <= 1
  /\ \A p \in Discovering : _lock = p
  /\ \A p \in Callers : ~hist[p].overlap

(* A second discovery is running for a caller of one loader while a caller of
   the other loader, whose ttl differs, waits for the lock *)
C34_Witness ==
  \E p, q \in Callers :
    /\ lpc[p] = "discovering" /\ lpc[q] = "waiting"
    /\ LoaderOf(p) # LoaderOf(q)
    /\ _ttl[1] # _ttl[2]
    /\ discover_count = 2

----------------------------------------------------------------------------
(* Properties of credential injection, checked under SpecAuth *)

IsWrapped(tool) == tool.wrappers # <<>>

AuthorizedCalls ==
  {k \in 1..Len(invocations) :
     IsWrapped(invocations[k].tool) /\ Truthy(invocations[k].user_id)}

(* C9: an invocation of a credential-wrapped tool with a user_id makes exactly
   one credential lookup, for the user_id and the name of the tool's server;
   an invocation without a user_id makes none; each authorized call receives
   the credential as the secret store holds it at that call, and no cached
   tool holds a credential. *)
C9_OneLookupPerAuthorizedCall ==
  /\ \A k \in 1..Len(invocations) :
       LET c == invocations[k]
       IN  IsWrapped(c.tool) =>
             IF Truthy(c.user_id)
             THEN /\ c.made = 1
                  /\ lookups[c.before + 1] =
                       [user_id |-> c.user_id, service_name |-> c.tool.server]
                  /\ c.received.auth_token = c.current
             ELSE /\ c.made = 0
                  /\ c.received.auth_token = None
  /\ Len(lookups) = Cardinality(AuthorizedCalls)
  /\ \A i \in 1..Len(tools.items) :
       /\ DOMAIN tools.items[i] = {"name", "server", "has_fn", "wrappers"}
       /\ \A j \in 1..Len(tools.items[i].wrappers) :
            tools.items[i].wrappers[j] \in ServerNames

(* Two authorized calls of the same wrapped tool by the same user, the secret
   rotated in between: each made its own lookup and received the version
   current at its call *)
C9_Witness ==
  /\ Len(invocations) >= 2
  /\ IsWrapped(invocations[1].tool)
  /\ invocations[1].tool = invocations[2].tool
  /\ Truthy(invocations[1].user_id)
  /\ invocations[1].user_id = invocations[2].user_id
  /\ Truthy(invocations[1].received.auth_token)
  /\ Truthy(invocations[2].received.auth_token)
  /\ invocations[1].received.auth_token # invocations[2].received.auth_token
  /\ Len(lookups) = 2

(* The lookup for (user_id, server) finds nothing: no project is set, or the
   secret is missing or cannot be read *)
NoCredential(user_id, server) ==
  \/ project_id = None
  \/ <<user_id, server>> \notin DOMAIN secrets
  \/ secrets[<<user_id, server>>] = 0

(* C36: when the credential lookup of an authorized call finds nothing, the
   wrapped tool still forwards the call to the original fn, with the caller's
   user_id and with no auth_token injected; the lookup was made and the call
   did not fail *)
C36_NoCredentialStillForwards ==
  [][Len(invocations') = Len(invocations) + 1 =>
       LET c == invocations'[Len(invocations')]
       IN  (IsWrapped(c.tool) /\ Truthy(c.user_id)
              /\ \A j \in 1..Len(c.tool.wrappers) :
                   NoCredential(c.user_id, c.tool.wrappers[j])) =>
             /\ c.received = [user_id |-> c.user_id, auth_token |-> None]
             /\ c.made = Len(c.tool.wrappers)
             /\ Len(lookups') = Len(lookups) + c.made]_avars

(* A wrapped tool was called for a user whose secret is missing although the
   project is set: the lookup was made and the call went through without a
   token *)
C36_Witness ==
  /\ project_id # None /\ rotations = 0
  /\ Len(invocations) >= 1
  /\ IsWrapped(invocations[1].tool)
  /\ invocations[1].user_id = <<"u1">>
  /\ secrets[<< <<"u1">>, invocations[1].tool.server >>] = 0
  /\ invocations[1].made = 1 /\ Len(lookups) >= 1
  /\ invocations[1].received = [user_id |-> <<"u1">>, auth_token |-> None]

----------------------------------------------------------------------------
(* Properties of tool discovery, checked under SpecDiscover *)

(* No tool can come from anywhere: mock tools are off, and either no toolset
   is there to contact a server or no listed server answers with tools *)
EverySourceFails ==
  /\ ~debug
  /\ \/ ~has_toolset
     \/ \A i \in 1..Len(list_servers) : list_servers[i].behaviour # "tools"

IsList(t) == DOMAIN t = 1..Len(t)

(* C14: load_tools and load_tools_sync never raise to their caller: each call
   returns a list of tools, and the list is empty when every source fails *)
C14_LoadersNeverRaise ==
  \A k \in 1..Len(loads) :
    /\ ~loads[k].raised
    /\ IsList(loads[k].tools)
    /\ EverySourceFails => loads[k].tools = <<>>

(* Both entry points have been called while the first listed server, one that
   requires user authentication, makes its toolset raise and nothing answers *)
C14_Witness ==
  /\ Len(loads) = 2
  /\ loads[1].api = "load_tools" /\ loads[1].discovered
  /\ loads[2].api = "load_tools_sync"
  /\ has_toolset /\ ~debug
  /\ list_servers # <<>>
  /\ list_servers[1].requires_user_auth
  /\ \A i \in 1..Len(list_servers) : list_servers[i].behaviour = "raises"
  /\ loads[1].tools = <<>> /\ loads[2].tools = <<>>

Contributes(srv, t) ==
  \E j \in 1..Len(t) : t[j].server = srv.server_name /\ t[j].name = ToolOf(srv).name

(* C15: a server that fails during discovery is skipped and blocks no other
   server: whatever discovery returns holds the tools of every listed server
   that answers, wherever the failing server sits in the list *)
C15_FailingServerSkipped ==
  \A k \in 1..Len(loads) :
    (loads[k].discovered /\ has_toolset /\ ~loads[k].raised) =>
      \A i \in 1..Len(list_servers) :
        list_servers[i].behaviour = "tools" =>
          Contributes(list_servers[i], loads[k].tools)

(* C37: load_tools_sync called while an event loop is running performs no
   discovery and leaves the cache entry and its stamp as they were; it
   returns the cached list, or the empty list when nothing was cached *)
C37_SyncUnderRunningLoop ==
  [][Len(loads') = Len(loads) + 1 =>
       LET c == loads'[Len(loads')]
       IN  (c.api = "load_tools_sync" /\ c.running) =>
             /\ ~c.discovered /\ ~c.raised
             /\ _cache' = _cache /\ _cache_ts' = _cache_ts
             /\ c.tools = (IF _cache.set THEN _cache.items ELSE <<>>)]_<<svars, lvars>>

(* load_tools_sync was called under a running loop after a discovery had
   cached a tool, and returned the cached list *)
C37_Witness ==
  /\ Len(loads) = 2
  /\ loads[1].discovered /\ loads[1].tools # <<>>
  /\ loads[2].api = "load_tools_sync" /\ loads[2].running
  /\ ~loads[2].discovered
  /\ loads[2].tools = loads[1].tools
  /\ _cache.set /\ _cache.id = 1 /\ _cache.items = loads[2].tools

----------------------------------------------------------------------------
(* Further properties of the dispatcher, checked under SpecDispatch *)

(* Each of the two overlapping calls that has returned has returned what the
   call that ran alone returned *)
ReturnedAsAlone ==
  comparison = "overlapping" =>
    /\ pc = "returned" => result = alone.result
    /\ other.pc = "returned" => other.result = alone.result

(* C23: no step of handle_task, in any pattern, changes agents,
   roles_by_name, runtime_config or execution_type, whether the call runs
   alone or overlaps with another call on the same service; and every one of
   the overlapping calls, however the event loop interleaves their steps,
   returns the result that the call returned when it ran alone, as long as
   the completion capability has answered the same invocation alike *)
C23_ConcurrentCallsAsAlone ==
  /\ [][UNCHANGED <<agents, roles_by_name, runtime_config, execution_type>>]_<<dvars, uvars, kvars>>
  /\ [](SameAnswers => ReturnedAsAlone)

(* Two coordinator calls overlapped and were answered alike: the running call
   went through its decision, a worker and the final invocation and has
   returned the result of the call that ran alone, while the other call is
   still suspended at the await of its own worker *)
C23_Witness ==
  /\ execution_type = "coordinator"
  /\ comparison = "overlapping"
  /\ SameAnswers
  /\ pc = "returned"
  /\ Len(calls) >= 3
  /\ result = alone.result
  /\ other.pc \notin {"idle", "returned"}
  /\ Len(other.calls) = 2

(* C26: the sequential pattern invokes the declared roles one by one in the
   declared order, each once, the next only after the one before has
   returned, and returns the output of the last declared role *)
C26_SequentialOrder ==
  execution_type = "sequential" =>
    /\ Len(calls) <= Len(agents)
    /\ \A i \in 1..Len(calls) :
         /\ calls[i].role = agents[i]
         /\ i < Len(calls) => calls[i].out # Pending
    /\ \A i \in 1..Len(completed) : completed[i] = i
    /\ pc = "returned" =>
         /\ Len(calls) = Len(agents)
         /\ Len(completed) = Len(agents)
         /\ result = calls[Len(agents)].out

(* Two roles have run in turn and the second one's output was returned *)
C26_Witness ==
  /\ execution_type = "sequential" /\ pc = "returned"
  /\ Len(agents) = 2 /\ Len(calls) = 2
  /\ calls[1].out # calls[2].out
  /\ result = calls[2].out

(* The participants _run_parallel should have: the declared roles named in
   parallel_roles, or else the declared roles other than aggregator_role *)
ExpectedParticipants ==
  IF runtime_config.parallel_roles # {}
  THEN {r \in Declared : r \in runtime_config.parallel_roles}
  ELSE {r \in Declared : r # runtime_config.aggregator_role}

InFlight == {i \in 1..Len(calls) : calls[i].out = Pending}

(* C27: in the parallel pattern every participant is invoked on the original
   input; the combined text exists, and the aggregator is invoked, only when
   every participant invocation has returned, and none is in flight when
   handle_task returns *)
C27_GatherBeforeCombine ==
  (execution_type = "parallel" /\ pc # "idle") =>
    LET n == Cardinality(ExpectedParticipants)
    IN  /\ Len(calls) >= n
        /\ \A i \in 1..n : calls[i].input = user_message
        /\ (combined # None \/ Len(calls) > n \/ pc \in {"aggregate", "returned"}) =>
             \A i \in 1..n : calls[i].out # Pending
        /\ pc = "returned" => InFlight = {}

(* The aggregator runs on the results of two participants that returned in
   the reverse of their order *)
C27_Witness ==
  /\ execution_type = "parallel" /\ pc = "aggregate"
  /\ Len(calls) = 3
  /\ completed = <<2, 1>>
  /\ combined # None

(* C28: the participants of the parallel pattern are exactly the declared
   roles named in parallel_roles when it is not empty, and else exactly the
   declared roles other than aggregator_role; the only other invocation is
   the aggregator's *)
C28_ParticipantSet ==
  (execution_type = "parallel" /\ pc # "idle") =>
    LET n == Cardinality(ExpectedParticipants)
    IN  /\ Len(calls) \in {n, n + 1}
        /\ {calls[i].role : i \in 1..n} = ExpectedParticipants
        /\ \A i, j \in 1..n : calls[i].role = calls[j].role => i = j
        /\ Len(calls) = n + 1 =>
             /\ pc \in {"aggregate", "returned"}
             /\ calls[n + 1].role = runtime_config.aggregator_role

(* Both cases: with parallel_roles empty the declared aggregator stays out of
   the fan-out *)
C28_Witness ==
  /\ execution_type = "parallel" /\ pc = "parallel"
  /\ runtime_config.parallel_roles = {}
  /\ runtime_config.aggregator_role \in Declared
  /\ Len(agents) = 2 /\ Len(calls) = 1
  /\ calls[1].role # runtime_config.aggregator_role

(* C29: when aggregator_role names a declared role, the aggregator is invoked
   once, after the fan-out, on the synthesis prompt that embeds the combined
   text, and its output is returned; when aggregator_role is not set, the
   combined text is returned *)
C29_AggregatorOutputReturned ==
  (execution_type = "parallel" /\ pc = "returned") =>
    LET n == Cardinality(ExpectedParticipants)
        aggregations == {i \in 1..Len(calls) :
                           calls[i].input =
                             <<"Aggregate and synthesize these results:\n\n">> \o combined}
    IN  /\ runtime_config.aggregator_role \in Declared =>
             /\ aggregations = {n + 1}
             /\ Len(calls) = n + 1
             /\ calls[n + 1].role = runtime_config.aggregator_role
             /\ result = calls[n + 1].out
        /\ runtime_config.aggregator_role = None =>
             /\ Len(calls) = n
             /\ result = combined

(* The aggregator's output, different from the combined text, was returned *)
C29_Witness ==
  /\ execution_type = "parallel" /\ pc = "returned"
  /\ runtime_config.aggregator_role \in Declared
  /\ Len(calls) = 2
  /\ calls[2].role = runtime_config.aggregator_role
  /\ calls[2].input = <<"Aggregate and synthesize these results:\n\n">> \o combined
  /\ result = calls[2].out /\ result # combined

(* The names of the coordinator's reply, trimmed and lowercased, that are
   roles, in the order of the reply *)
MatchedWorkers ==
  LET parts == Split(calls[1].out, ",")
      names == [i \in 1..Len(parts) |-> Lower(Strip(parts[i]))]
  IN  SelectSeq(names, LAMBDA w : w \in Declared)

(* C30: the coordinator pattern invokes the matched workers one at a time, in
   the order of their names in the coordinator's reply, each on the original
   input, never two at once, and the synthesis prompt holds their blocks in
   that order *)
C30_WorkersInReplyOrder ==
  (execution_type = "coordinator" /\ lead # None
     /\ pc \in {"coord_work", "coord_final", "returned"}) =>
    LET m == IF pc = "coord_work" THEN Len(calls) - 1 ELSE Len(calls) - 2
    IN  /\ m <= Len(MatchedWorkers)
        /\ pc # "coord_work" => m = Len(MatchedWorkers)
        /\ \A k \in 1..m : /\ calls[k + 1].role = MatchedWorkers[k]
                           /\ calls[k + 1].input = user_message
        /\ Cardinality(InFlight) <= 1
        /\ \A i \in 1..Len(calls) : i < Len(calls) => calls[i].out # Pending
        /\ (pc # "coord_work" /\ m >= 1) =>
             calls[m + 2].input =
               <<"Synthesize these worker results into a final response:\n\n">>
                 \o Join(BlankLine,
                         [k \in 1..m |-> Block(MatchedWorkers[k], calls[k + 1].out)])

(* Two workers named in the reply in the reverse of their declared order ran
   in the order of the reply *)
C30_Witness ==
  /\ execution_type = "coordinator" /\ pc = "returned"
  /\ Len(calls) = 4
  /\ calls[1].out = <<"c", ",", " ", "A">>
  /\ agents = << <<"a">>, <<"c">> >>
  /\ calls[2].role = <<"c">> /\ calls[3].role = <<"a">>

(* The positions in calls of the worker invocations of the coordinator
   pattern: those between the decision and the final invocation *)
WorkerCalls ==
  IF pc = "coord_work" THEN 2..Len(calls)
  ELSE IF pc \in {"coord_final", "returned"} THEN 2..(Len(calls) - 1)
  ELSE {}

(* The names written in a reply, each trimmed and lowercased *)
NamesWritten(reply) ==
  LET parts == Split(reply, ",")
  IN  {Lower(Strip(parts[i])) : i \in 1..Len(parts)}

(* C31 as stated: the coordinator pattern dispatches as a worker only a
   member of worker_roles, and the hub-spoke pattern routes only to a member
   of spoke_roles (the hub answering the request itself is the fallback) *)
C31_OnlyListedRoles ==
  /\ (execution_type = "coordinator" /\ lead # None) =>
       \A k \in WorkerCalls : calls[k].role \in SeqToSet(runtime_config.worker_roles)
  /\ (execution_type = "hub-spoke" /\ lead # None /\ pc \in {"hub_final", "returned"}) =>
       (calls[2].role # lead => calls[2].role \in SeqToSet(runtime_config.spoke_roles))

(* C31, amended: the coordinator pattern dispatches as a worker only a
   declared role whose name is written, up to surrounding blanks and case, in
   the coordinator's reply, and the hub-spoke pattern routes only to the
   declared role the hub's reply names, or to the hub when the reply names no
   declared role; neither looks at worker_roles or spoke_roles *)
C31_OnlyDeclaredNamedRoles ==
  /\ (execution_type = "coordinator" /\ lead # None) =>
       \A k \in WorkerCalls : /\ calls[k].role \in Declared
                               /\ calls[k].role \in NamesWritten(calls[1].out)
  /\ (execution_type = "hub-spoke" /\ lead # None /\ pc \in {"hub_final", "returned"}) =>
       LET name == Lower(Strip(calls[1].out))
       IN  /\ calls[2].role \in Declared
           /\ name \in Declared => calls[2].role = name
           /\ name \notin Declared => calls[2].role = lead

(* The coordinator, named in its own reply and listed in no worker_roles, was
   dispatched as a worker *)
C31_Witness ==
  /\ execution_type = "coordinator" /\ pc = "returned"
  /\ Len(calls) = 3
  /\ runtime_config.worker_roles = <<>>
  /\ calls[1].out = <<"a">>
  /\ lead = <<"a">>
  /\ calls[2].role = lead /\ calls[2].input = user_message

----------------------------------------------------------------------------
(* Properties of start-up, checked under SpecStartup *)

Failures == {i \in 1..Len(requests) : requests[i] = "failure"}

(* C21: the registry fetch makes at most 3 requests and none after a
   successful one; it sleeps only between attempts; after 3 failed requests
   the service is the single legacy role built from the environment, and
   fetch_agent_config has returned nothing *)
C21_AtMostThreeAttempts ==
  /\ Len(requests) <= 3
  /\ \A i \in 1..Len(requests) : i < Len(requests) => requests[i] = "failure"
  /\ sleeps = (IF Cardinality(Failures) = 3 THEN 2 ELSE Cardinality(Failures))
  /\ Cardinality(Failures) = 3 =>
       /\ spc \in {"ready", "raised", "returned"}
       /\ agent_data = NoData
       /\ loader = "util" => spc = "returned"
       /\ spc = "ready" => /\ agents = <<GeneralRole>>
                           /\ roles_by_name = {GeneralRole}
                           /\ execution_type = "single"

(* The service has started after three failed requests *)
C21_Witness ==
  /\ loader = "service" /\ spc = "ready"
  /\ requests = <<"failure", "failure", "failure">>
  /\ sleeps = 2
  /\ agents = <<GeneralRole>>

(* C22: once AgentService is constructed, on whichever path, agents is not
   empty and roles_by_name holds exactly its roles, so agents[0] exists *)
C22_AgentsNonEmpty ==
  (loader = "service" /\ spc = "ready") =>
    /\ Len(agents) >= 1
    /\ roles_by_name = SeqToSet(agents)
    /\ pending = <<>>

(* The service has started from a runtime_config whose role list is empty *)
C22_Witness ==
  /\ loader = "service" /\ spc = "ready"
  /\ agent_data.kind = "object" /\ agent_data.has_config
  /\ agent_data.roles = <<>>
  /\ agents = <<GeneralRole>>

(* Construction ended in legacy mode: no AGENT_ID, the registry never
   answered, the agent has no runtime_config, or its role list is empty; the
   role list is then the one BaseAgent built from the environment *)
LegacyMode ==
  /\ loader = "service" /\ spc = "ready"
  /\ \/ agent_id = None
     \/ agent_data.kind = "none"
     \/ (agent_data.kind = "object" /\ (~agent_data.has_config \/ agent_data.roles = <<>>))

(* C35: whenever AgentService construction ends in legacy single-role mode,
   execution_type is "single", on every fallback path, a runtime_config that
   declares another execution_type with an empty role list included *)
C35_LegacyModeIsSingle ==
  LegacyMode => (agents = <<GeneralRole>> /\ execution_type = "single")

----------------------------------------------------------------------------
(* Properties of the agent factory, checked under SpecFactory *)

SupportedTypes ==
  {"single", "sequential", "parallel", "loop", "coordinator", "hub-spoke", "hybrid"}

(* C24: for an execution_type that is not a supported pattern, and for a
   factory given None as config and as prompts, build does not raise and
   returns one LlmAgent made from the top-level config: its name, or "agent",
   its model behind litellm/, and the tools that were loaded *)
C24_UnknownTypeBuildsSingle ==
  (/\ product.kind \in {"built", "raised"}
   /\ \/ factory_config.execution_type \notin SupportedTypes
      \/ ~factory_config.given /\ ~resolved_prompts.given) =>
    /\ product.kind = "built"
    /\ product.agent.kind = "LlmAgent"
    /\ product.agent.name =
         (IF factory_config.name # None THEN factory_config.name ELSE <<"agent">>)
    /\ product.agent.model =
         <<"litellm/">> \o (IF factory_config.model # None THEN factory_config.model
                            ELSE <<"gpt-4o-mini">>)
    /\ product.agent.tools = product.tools
    /\ ~factory_config.given =>
         product.agent.instruction = <<"You are an AI assistant.">>

(* A config of an unsupported type that declares roles was built into the one
   agent of its top level *)
C24_Witness ==
  /\ product.kind = "built"
  /\ factory_config.execution_type = "unsupported_type"
  /\ factory_config.roles # <<>>
  /\ product.agent.kind = "LlmAgent"
  /\ product.agent.name = <<"main">>

NamesOf(s) == [i \in 1..Len(s) |-> s[i].name]

(* C25: _build_parallel makes the fan-out from every role but the one named
   aggregator_role, one sub-agent per role in order; it returns the
   SequentialAgent of fan-out and aggregator exactly when aggregator_role is
   set and names a declared role, and the ParallelAgent alone otherwise *)
C25_ParallelShape ==
  (product.kind \in {"built", "raised"} /\ factory_config.execution_type = "parallel") =>
    LET agg == factory_config.aggregator_role
        roles == factory_config.roles
        declared == agg # None /\ \E i \in 1..Len(roles) : roles[i].name = agg
        fan == IF product.agent.kind = "SequentialAgent"
               THEN product.agent.sub_agents[1] ELSE product.agent
    IN  /\ product.kind = "built"
        /\ product.agent.kind = (IF declared THEN "SequentialAgent" ELSE "ParallelAgent")
        /\ fan.kind = "ParallelAgent"
        /\ NamesOf(fan.sub_agents) = SelectSeq(NamesOf(roles), LAMBDA n : n # agg)
        /\ \A i \in 1..Len(fan.sub_agents) : fan.sub_agents[i].kind = "LlmAgent"
        /\ declared => /\ Len(product.agent.sub_agents) = 2
                       /\ product.agent.sub_agents[2].kind = "LlmAgent"
                       /\ product.agent.sub_agents[2].name = agg

(* The aggregator, declared first, wraps a fan-out of the two other roles *)
C25_Witness ==
  /\ product.kind = "built"
  /\ factory_config.execution_type = "parallel"
  /\ factory_config.aggregator_role = <<"agg">>
  /\ Len(factory_config.roles) = 3
  /\ product.agent.kind = "SequentialAgent"
  /\ Len(product.agent.sub_agents[1].sub_agents) = 2

(* C38: _build_coordinator and _build_hub_spoke add the agent-tools of the
   workers (spokes) to the tool list of the coordinator (hub) only: once the
   build is over, the tools of every worker and the factory's own _tools are
   the list that was loaded, as before the build *)
C38_OnlyLeadToolsGrow ==
  (product.kind = "built"
     /\ factory_config.execution_type \in {"coordinator", "hub-spoke"}) =>
    /\ product.factory_tools = product.tools
    /\ \A i \in 1..Len(product.workers) : product.workers[i].tools = product.tools

(* C40: _load_tools gives one builtin placeholder for each configured entry
   that is a string or an active dict of provider builtin, in configured
   order, and none for an entry that is inactive, of provider mcp, or neither
   string nor dict; the default builtin tools are added only when the
   configured list is empty or absent; the MCP tools come last *)
C40_PlaceholdersPerEntry ==
  product.kind \in {"built", "raised"} =>
    LET cfgs == factory_config.tools
        gives == {i \in 1..Len(cfgs) :
                    \/ cfgs[i].type = "str"
                    \/ cfgs[i].type = "dict" /\ cfgs[i].active
                         /\ cfgs[i].provider = "builtin"}
        nothing == {i \in 1..Len(cfgs) :
                      \/ cfgs[i].type = "other"
                      \/ cfgs[i].type = "dict"
                           /\ (~cfgs[i].active \/ cfgs[i].provider = "mcp")}
        defaults == Len(product.tools) - Cardinality(gives) - Len(product.mcp)
        rank(i) == Cardinality({j \in gives : j <= i})
    IN  /\ gives \cap nothing = {}
        /\ defaults >= 0
        /\ \A i \in gives :
             product.tools[rank(i)] = (IF cfgs[i].id = "" THEN "unknown" ELSE cfgs[i].id)
        /\ defaults > 0 => cfgs = <<>>
        /\ cfgs = <<>> =>
             SubSeq(product.tools, 1, defaults)
               = SelectSeq(product.builtin, LAMBDA b : b # "")
        /\ SubSeq(product.tools, Len(product.tools) - Len(product.mcp) + 1,
                  Len(product.tools)) = product.mcp

(* The list of the unit test, two invalid items around a dict and a string,
   gave the two placeholders in order, no default tool, then the MCP tool *)
C40_Witness ==
  /\ product.kind = "built"
  /\ Len(factory_config.tools) = 4
  /\ factory_config.tools[1].type = "other"
  /\ product.builtin # <<>>
  /\ product.tools = <<"tool1", "tool2", "<tool object>">>

----------------------------------------------------------------------------
(* Properties of the executors, checked under SpecExecutor *)

EventTag(e) == IF e.kind = "status" THEN e.state ELSE e.kind

IsPrefix(s, t) == Len(s) <= Len(t) /\ SubSeq(t, 1, Len(s)) = s

(* C32: an execute() call that carries a message enqueues, in this order, the
   new task (only when the context had none), one working status with
   final=False, then either one failed status with final=True or one artifact
   followed by one completed status with final=True; once it has returned
   the queue holds exactly one final event, and it is the last *)
C32_EventOrder ==
  (epc # "idle" /\ request.message # None) =>
    LET tags == [i \in 1..Len(event_queue) |-> EventTag(event_queue[i])]
        opening == IF request.current_task THEN <<>> ELSE <<"task">>
        failure == opening \o <<"working", "failed">>
        success == opening \o <<"working", "artifact", "completed">>
        finals == {i \in 1..Len(event_queue) : event_queue[i].final}
    IN  /\ IsPrefix(tags, failure) \/ IsPrefix(tags, success)
        /\ \A i \in 1..Len(event_queue) :
             event_queue[i].final <=> tags[i] \in {"failed", "completed"}
        /\ \A i \in finals : i = Len(event_queue)
        /\ epc = "returned" <=> Cardinality(finals) = 1
        /\ epc = "returned" => tags \in {failure, success}

(* An ADK call with a message and no task ran to completion: task, working,
   artifact, completed *)
C32_Witness ==
  /\ executor = "ADKAgentExecutor" /\ epc = "returned"
  /\ request.message = <<"hi">> /\ ~request.current_task
  /\ Len(event_queue) = 4
  /\ event_queue[3].kind = "artifact" /\ event_queue[3].text = <<"R">>
  /\ event_queue[4].final

----------------------------------------------------------------------------
(* The specifications: one per component, the other components at rest *)

vars == <<dvars, lvars, pvars, avars, svars, uvars, fvars, evars, kvars>>

InitDispatch == DispatchInit /\ CacheIdle /\ PromptIdle /\ AuthIdle /\ DiscoverIdle /\ StartupIdle /\ FactoryIdle /\ ExecutorIdle /\ ConcurrentIdle

NextDispatch ==
  \/ handle_task /\ UNCHANGED <<lvars, pvars, avars, svars, uvars, fvars, evars, kvars>>
  \/ SingleReturn /\ UNCHANGED <<lvars, pvars, avars, svars, uvars, fvars, evars, kvars>>
  \/ SequentialReturn /\ UNCHANGED <<lvars, pvars, avars, svars, uvars, fvars, evars, kvars>>
  \/ ParallelComplete /\ UNCHANGED <<lvars, pvars, avars, svars, uvars, fvars, evars, kvars>>
  \/ ParallelGathered /\ UNCHANGED <<lvars, pvars, avars, svars, uvars, fvars, evars, kvars>>
  \/ AggregatorReturn /\ UNCHANGED <<lvars, pvars, avars, svars, uvars, fvars, evars, kvars>>
  \/ CoordDecisionReturn /\ UNCHANGED <<lvars, pvars, avars, svars, uvars, fvars, evars, kvars>>
  \/ CoordWorkerReturn /\ UNCHANGED <<lvars, pvars, avars, svars, uvars, fvars, evars, kvars>>
  \/ CoordFinalReturn /\ UNCHANGED <<lvars, pvars, avars, svars, uvars, fvars, evars, kvars>>
  \/ HubDecisionReturn /\ UNCHANGED <<lvars, pvars, avars, svars, uvars, fvars, evars, kvars>>
  \/ HubFinalReturn /\ UNCHANGED <<lvars, pvars, avars, svars, uvars, fvars, evars, kvars>>

SpecDispatch == InitDispatch /\ [][NextDispatch]_vars

InitCache == CacheInit /\ DispatchIdle /\ PromptIdle /\ AuthIdle /\ DiscoverIdle /\ StartupIdle /\ FactoryIdle /\ ExecutorIdle /\ ConcurrentIdle

NextCache ==
  \/ \E p \in Callers : LoadTools(p) /\ UNCHANGED <<dvars, pvars, avars, svars, uvars, fvars, evars, kvars>>
  \/ \E p \in Callers : LockAcquired(p) /\ UNCHANGED <<dvars, pvars, avars, svars, uvars, fvars, evars, kvars>>
  \/ \E p \in Callers : DiscoverReturn(p) /\ UNCHANGED <<dvars, pvars, avars, svars, uvars, fvars, evars, kvars>>
  \/ Tick /\ UNCHANGED <<dvars, pvars, avars, svars, uvars, fvars, evars, kvars>>

SpecCache == InitCache /\ [][NextCache]_vars

InitPrompt == PromptInit /\ DispatchIdle /\ CacheIdle /\ AuthIdle /\ DiscoverIdle /\ StartupIdle /\ FactoryIdle /\ ExecutorIdle /\ ConcurrentIdle

NextPrompt ==
  \/ BuildBaseAgent /\ UNCHANGED <<lvars, avars, svars, fvars, evars, kvars>>
  \/ _build_llm_agent /\ UNCHANGED <<dvars, lvars, avars, svars, uvars, fvars, evars, kvars>>

SpecPrompt == InitPrompt /\ [][NextPrompt]_vars

InitAuth == AuthInit /\ DispatchIdle /\ CacheIdle /\ PromptIdle /\ DiscoverIdle /\ StartupIdle /\ FactoryIdle /\ ExecutorIdle /\ ConcurrentIdle

NextAuth ==
  \/ _discover_tools /\ UNCHANGED <<dvars, lvars, pvars, svars, uvars, fvars, evars, kvars>>
  \/ \E i \in 1..Len(servers), u \in UserIds :
       InvokeTool(i, u) /\ UNCHANGED <<dvars, lvars, pvars, svars, uvars, fvars, evars, kvars>>
  \/ \E k \in Users \X ServerNames : RotateSecret(k) /\ UNCHANGED <<dvars, lvars, pvars, svars, uvars, fvars, evars, kvars>>

SpecAuth == InitAuth /\ [][NextAuth]_vars

InitDiscover == DiscoverInit /\ DispatchIdle /\ CacheIdle /\ PromptIdle /\ AuthRest /\ StartupIdle /\ FactoryIdle /\ ExecutorIdle /\ ConcurrentIdle

NextDiscover ==
  \/ load_tools /\ UNCHANGED <<dvars, pvars, avars, uvars, fvars, evars, kvars>>
  \/ load_tools_sync /\ UNCHANGED <<dvars, pvars, avars, uvars, fvars, evars, kvars>>

SpecDiscover == InitDiscover /\ [][NextDiscover]_vars

InitStartup == StartupInit /\ CacheIdle /\ PromptIdle /\ AuthIdle /\ DiscoverIdle /\ FactoryIdle /\ ExecutorIdle /\ ConcurrentIdle

NextStartup ==
  \/ Construct /\ UNCHANGED <<lvars, pvars, avars, svars, fvars, evars, kvars>>
  \/ fetch_agent_config /\ UNCHANGED <<lvars, pvars, avars, svars, fvars, evars, kvars>>
  \/ FetchAttempt /\ UNCHANGED <<lvars, pvars, avars, svars, fvars, evars, kvars>>
  \/ BuildRole /\ UNCHANGED <<lvars, pvars, avars, svars, fvars, evars, kvars>>

SpecStartup == InitStartup /\ [][NextStartup]_vars

InitFactory ==
  FactoryInit /\ DispatchIdle /\ PromptIdle /\ AuthIdle
    /\ FactoryDiscoverInit /\ StartupIdle /\ ExecutorIdle /\ ConcurrentIdle

NextFactory ==
  build /\ UNCHANGED <<dvars, pvars, avars, uvars, evars, kvars>>

SpecFactory == InitFactory /\ [][NextFactory]_vars

InitExecutor ==
  ExecutorInit /\ DispatchIdle /\ CacheAfterConstruction /\ PromptIdle /\ AuthIdle /\ DiscoverIdle
    /\ StartupIdle /\ FactoryIdle /\ ConcurrentIdle

NextExecutor ==
  \/ execute /\ UNCHANGED <<dvars, lvars, pvars, avars, svars, uvars, fvars, kvars>>
  \/ EnqueueWorking /\ UNCHANGED <<dvars, lvars, pvars, avars, svars, uvars, fvars, kvars>>
  \/ ResultReturn /\ UNCHANGED <<dvars, lvars, pvars, avars, svars, uvars, fvars, kvars>>
  \/ EnqueueCompleted /\ UNCHANGED <<dvars, lvars, pvars, avars, svars, uvars, fvars, kvars>>

SpecExecutor == InitExecutor /\ [][NextExecutor]_vars

(* Three calls of handle_task on one service: one alone, then two that overlap *)
InitConcurrent == DispatchInit /\ ConcurrentInit /\ CacheIdle /\ PromptIdle /\ AuthIdle /\ DiscoverIdle /\ StartupIdle /\ FactoryIdle /\ ExecutorIdle

Rest == UNCHANGED <<lvars, pvars, avars, svars, uvars, fvars, evars>>

NextConcurrent ==
  \/ handle_task /\ RunningStep /\ Rest
  \/ SingleReturn /\ RunningStep /\ Rest
  \/ SequentialReturn /\ RunningStep /\ Rest
  \/ ParallelComplete /\ RunningStep /\ Rest
  \/ ParallelGathered /\ RunningStep /\ Rest
  \/ AggregatorReturn /\ RunningStep /\ Rest
  \/ CoordDecisionReturn /\ RunningStep /\ Rest
  \/ CoordWorkerReturn /\ RunningStep /\ Rest
  \/ CoordFinalReturn /\ RunningStep /\ Rest
  \/ HubDecisionReturn /\ RunningStep /\ Rest
  \/ HubFinalReturn /\ RunningStep /\ Rest
  \/ OverlappingCalls /\ Rest
  \/ Resume /\ Rest

SpecConcurrent == InitConcurrent /\ [][NextConcurrent]_vars

============================================================================
